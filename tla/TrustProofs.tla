---------------------------- MODULE TrustProofs ----------------------------
(***************************************************************************)
(* The safety properties of Trust for any certificates, pin ids and number *)
(* of handshakes.  Neither is inductive: recognition rests on what the pin *)
(* store can hold in memory and on disk, the one identity on which files   *)
(* can exist together.                                                     *)
(***************************************************************************)
EXTENDS Trust, TLAPS

(* An announced peer is pinned to its own certificate or not at all, in     *)
(* memory and in a file that parses.                                        *)
PinsInv ==
    \A id \in PeerCerts :
        /\ pinned[id] \in {None, id}
        /\ saved # Torn => saved[id] \in {None, id}

(* A key file exists only next to a certificate, a whole one only next to   *)
(* its own, and an identity was used only once its key was written.         *)
FilesInv ==
    /\ key # None => cert # None
    /\ key \in OwnCerts => cert = key
    /\ used # {} => key \in OwnCerts /\ used = {key}
    /\ node = "certified" => identity \in OwnCerts /\ cert = identity /\ key = None

(* A handshake under way shows somebody's certificate. *)
ShowsInv == \A c \in Conns : conn[c].stage # "idle" => conn[c].shows \in PeerCerts

IInv == TrustTypeOK /\ PinsInv /\ FilesInv /\ ShowsInv /\ AnnouncedPeersRecognised

-----------------------------------------------------------------------------
(* A handshake of an announced peer that may still pin, or was accepted,    *)
(* shows the certificate the peer announced (Verdict).                      *)
LEMMA VerdictSound ==
  ASSUME NEW id \in PeerCerts, NEW shows \in PeerCerts,
         pinned[id] \in {None, id}
  PROVE  /\ Verdict(id, shows) \in {"accepting", "accepted"} => shows = id
         /\ Verdict(id, shows) = "refused" => shows # id
         /\ Verdict(id, shows) \in {"accepting", "accepted", "refused"}
BY CertsAssumption DEF Verdict, Expected

LEMMA InitInv == Init => IInv
BY CertsAssumption DEF Init, IInv, TrustTypeOK, PinsInv, FilesInv,
   ShowsInv, AnnouncedPeersRecognised, NoPins, NoConn, Pins, PinIds

(* Starting reads the files and writes none. *)
LEMMA LoadIdentityInv == IInv /\ LoadIdentity => IInv'
<1> SUFFICES ASSUME IInv, LoadIdentity PROVE IInv'
  OBVIOUS
<1> USE DEF IInv, LoadIdentity, disk
<1>1. TrustTypeOK'
  BY CertsAssumption DEF TrustTypeOK, RunPlain, RunWith, LoadPins, NoPins, Pins, PinIds
<1>2. PinsInv'
  BY CertsAssumption DEF TrustTypeOK, PinsInv, RunPlain, RunWith, LoadPins, NoPins, Pins, PinIds
<1>3. FilesInv'
  <2>1. CASE Torn \in {cert, key}
    BY <2>1, CertsAssumption DEF FilesInv, RunPlain
  <2>2. CASE Torn \notin {cert, key}
    <3>1. cert \in OwnCerts /\ cert = key
      BY <2>2 DEF TrustTypeOK, FilesInv
    <3>2. used' = {key}
      BY <2>2, <3>1 DEF FilesInv, RunWith
    <3> QED
      BY <2>2, <3>1, <3>2 DEF RunWith, FilesInv
  <2> QED
    BY <2>1, <2>2
<1>4. ShowsInv' /\ AnnouncedPeersRecognised'
  BY DEF ShowsInv, AnnouncedPeersRecognised
<1> QED
  BY <1>1, <1>2, <1>3, <1>4

LEMMA WriteCertInv == IInv /\ WriteCert => IInv'
<1> SUFFICES ASSUME IInv, WriteCert PROVE IInv'
  OBVIOUS
<1> USE DEF IInv, WriteCert
<1>1. TrustTypeOK'
  BY CertsAssumption DEF TrustTypeOK, RunPlain
<1>2. PinsInv'
  BY DEF PinsInv, RunPlain
<1>3. FilesInv'
  <2>1. key = None /\ used = {}
    BY CertsAssumption DEF FilesInv
  <2> QED
    BY <2>1, CertsAssumption DEF FilesInv, RunPlain
<1>4. ShowsInv' /\ AnnouncedPeersRecognised'
  BY DEF ShowsInv, AnnouncedPeersRecognised
<1> QED
  BY <1>1, <1>2, <1>3, <1>4

(* The key is written next to the certificate of the same pair: from here   *)
(* on the identity is in use and no other is generated.                     *)
LEMMA WriteKeyInv == IInv /\ WriteKey => IInv'
<1> SUFFICES ASSUME IInv, WriteKey PROVE IInv'
  OBVIOUS
<1> USE DEF IInv, WriteKey
<1>1. TrustTypeOK'
  BY CertsAssumption DEF TrustTypeOK, FilesInv, RunPlain, RunWith, LoadPins, NoPins, Pins, PinIds
<1>2. PinsInv'
  BY CertsAssumption DEF TrustTypeOK, PinsInv, RunPlain, RunWith, LoadPins, NoPins, Pins, PinIds
<1>3. FilesInv'
  <2>1. key = None /\ used = {} /\ cert = identity /\ identity \in OwnCerts
    BY CertsAssumption DEF FilesInv
  <2>2. CASE key' = identity /\ RunWith(identity)
    BY <2>1, <2>2, CertsAssumption DEF FilesInv, RunWith
  <2>3. CASE key' \in {key, Torn} /\ RunPlain
    BY <2>1, <2>3, CertsAssumption DEF FilesInv, RunPlain
  <2> QED
    BY <2>2, <2>3
<1>4. ShowsInv' /\ AnnouncedPeersRecognised'
  BY DEF ShowsInv, AnnouncedPeersRecognised
<1> QED
  BY <1>1, <1>2, <1>3, <1>4

LEMMA CrashInv == IInv /\ Crash => IInv'
<1> SUFFICES ASSUME IInv, Crash PROVE IInv'
  OBVIOUS
<1> USE DEF IInv, Crash
<1>1. TrustTypeOK'
  BY CertsAssumption DEF TrustTypeOK, NoPins, NoConn, Pins, PinIds
<1>2. PinsInv'
  BY DEF PinsInv, NoPins, PinIds
<1>3. FilesInv'
  BY CertsAssumption DEF FilesInv
<1>4. ShowsInv' /\ AnnouncedPeersRecognised'
  BY CertsAssumption DEF ShowsInv, AnnouncedPeersRecognised, NoConn
<1> QED
  BY <1>1, <1>2, <1>3, <1>4

-----------------------------------------------------------------------------
(* Handshakes.  The three steps of one connection touch neither the files   *)
(* of the identity nor the other connections.                               *)

LEMMA DialInv ==
  ASSUME IInv, NEW c \in Conns, NEW id \in PinIds, NEW shows \in PeerCerts, Dial(c, id, shows)
  PROVE  IInv'
<1> USE DEF IInv, Dial, disk
<1>1. TrustTypeOK'
  BY DEF TrustTypeOK
<1>2. PinsInv' /\ FilesInv'
  BY DEF PinsInv, FilesInv
<1>3. ShowsInv' /\ AnnouncedPeersRecognised'
  BY DEF ShowsInv, AnnouncedPeersRecognised, TrustTypeOK
<1> QED
  BY <1>1, <1>2, <1>3

LEMMA VerifyInv ==
  ASSUME IInv, NEW c \in Conns, VerifyServerCert(c)
  PROVE  IInv'
<1> USE DEF IInv, VerifyServerCert, disk
<1> DEFINE v == Verdict(conn[c].id, conn[c].shows)
<1>1. v \in {"accepting", "accepted", "refused"}
  BY DEF Verdict
<1>2. TrustTypeOK'
  BY <1>1 DEF TrustTypeOK
<1>3. PinsInv' /\ FilesInv' /\ ShowsInv'
  BY DEF PinsInv, FilesInv, ShowsInv, TrustTypeOK
<1>4. AnnouncedPeersRecognised'
  <2> SUFFICES ASSUME NEW d \in Conns, conn'[d].id \in PeerCerts
               PROVE  /\ conn'[d].stage \in {"accepting", "accepted"} => conn'[d].shows = conn'[d].id
                      /\ conn'[d].stage = "refused" => conn'[d].shows # conn'[d].id
    BY DEF AnnouncedPeersRecognised
  <2>1. CASE d # c
    BY <2>1 DEF AnnouncedPeersRecognised, TrustTypeOK
  <2>2. CASE d = c
    <3>1. /\ conn'[c].id = conn[c].id /\ conn'[c].shows = conn[c].shows
          /\ conn'[c].stage = v
      BY DEF TrustTypeOK
    <3>2. conn[c].id \in PeerCerts /\ pinned[conn[c].id] \in {None, conn[c].id}
      BY <2>2, <3>1 DEF PinsInv
    <3>3. conn[c].shows \in PeerCerts
      BY DEF ShowsInv
    <3>4. /\ v \in {"accepting", "accepted"} => conn[c].shows = conn[c].id
          /\ v = "refused" => conn[c].shows # conn[c].id
      BY <3>2, <3>3, VerdictSound
    <3> QED
      BY <2>2, <3>1, <3>4
  <2> QED
    BY <2>1, <2>2
<1> QED
  BY <1>2, <1>3, <1>4

(* What is pinned is what the verdict let pass, although other handshakes   *)
(* may have pinned since.                                                   *)
LEMMA PinInv ==
  ASSUME IInv, NEW c \in Conns, Pin(c)
  PROVE  IInv'
<1> USE DEF IInv, Pin
<1>1. /\ conn[c].id \in PinIds \cup {None} /\ conn[c].shows \in PeerCerts
      /\ conn[c].id \in PeerCerts => conn[c].shows = conn[c].id
  BY DEF TrustTypeOK, ShowsInv, AnnouncedPeersRecognised
<1>2. pinned' \in Pins
  BY <1>1, CertsAssumption DEF TrustTypeOK, Pins
<1>3. TrustTypeOK'
  BY <1>2 DEF TrustTypeOK
<1>4. \A id \in PeerCerts : pinned'[id] \in {None, id}
  <2> TAKE id \in PeerCerts
  <2>1. CASE id = conn[c].id
    BY <1>1, <2>1 DEF TrustTypeOK, Pins, PinIds
  <2>2. CASE id # conn[c].id
    BY <2>2 DEF PinsInv, TrustTypeOK, Pins, PinIds
  <2> QED
    BY <2>1, <2>2
<1>5. PinsInv'
  BY <1>4 DEF PinsInv
<1>6. FilesInv'
  BY DEF FilesInv
<1>7. ShowsInv' /\ AnnouncedPeersRecognised'
  BY DEF ShowsInv, AnnouncedPeersRecognised, TrustTypeOK
<1> QED
  BY <1>3, <1>5, <1>6, <1>7

-----------------------------------------------------------------------------
LEMMA StepInv == IInv /\ [Next]_vars => IInv'
<1> SUFFICES ASSUME IInv, [Next]_vars PROVE IInv'
  OBVIOUS
<1>1. CASE UNCHANGED vars
  BY <1>1 DEF vars, IInv, TrustTypeOK, PinsInv, FilesInv, ShowsInv, AnnouncedPeersRecognised
<1>2. CASE LoadIdentity
  BY <1>2, LoadIdentityInv
<1>3. CASE WriteCert
  BY <1>3, WriteCertInv
<1>4. CASE WriteKey
  BY <1>4, WriteKeyInv
<1>5. CASE Crash
  BY <1>5, CrashInv
<1>6. ASSUME NEW c \in Conns, NEW id \in PinIds, NEW shows \in PeerCerts, Dial(c, id, shows)
      PROVE  IInv'
  BY <1>6, DialInv
<1>7. ASSUME NEW c \in Conns, VerifyServerCert(c)
      PROVE  IInv'
  BY <1>7, VerifyInv
<1>8. ASSUME NEW c \in Conns, Pin(c)
      PROVE  IInv'
  BY <1>8, PinInv
<1> QED
  BY <1>1, <1>2, <1>3, <1>4, <1>5, <1>6, <1>7, <1>8 DEF Next

LEMMA Invariant == Spec => []IInv
BY InitInv, StepInv, PTL DEF Spec

(* The files, the store and the handshakes keep their shape for ever. *)
THEOREM TrustTypeCorrect == Spec => []TrustTypeOK
BY Invariant, PTL DEF IInv

(* For any number of peers and concurrent handshakes: an announced peer is  *)
(* accepted exactly when it shows the certificate it announced              *)
(* (verify_server_cert and pin in tls.rs).                                  *)
THEOREM PeersRecognised == Spec => []AnnouncedPeersRecognised
BY Invariant, PTL DEF IInv

(* However often a node crashes within load_or_create, it presents one      *)
(* certificate in all its life (identity.rs).                               *)
THEOREM IdentityIsForLife == Spec => []OneIdentity
<1>1. IInv => OneIdentity
  BY DEF IInv, FilesInv, OneIdentity
<1> QED
  BY <1>1, Invariant, PTL
=============================================================================

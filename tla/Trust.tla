-------------------------------- MODULE Trust --------------------------------
(***************************************************************************)
(* The TLS side of a node over its crashes and restarts: the identity it   *)
(* creates on its first run (rust/core/src/relay/identity.rs) and the pins *)
(* it keeps of its peers' certificates (TofuStore and TofuVerifier in      *)
(* rust/core/src/relay/tls.rs), both in files of one directory.            *)
(*                                                                         *)
(* A certificate stands for its SHA-256 digest, which is also the          *)
(* fingerprint its device announces.  One process at a time uses the       *)
(* directory.  No file is written atomically: a crash, or a write error    *)
(* the code ignores, may leave it truncated ("Torn"), and a truncated file *)
(* does not parse.                                                         *)
(***************************************************************************)
EXTENDS Naturals, FiniteSets

CONSTANTS
    OwnCerts,    \* certificates this node may generate
    PeerCerts,   \* certificates of other devices
    Unanchored,  \* pin ids with no announcement behind them: manual targets,
                 \* "any" (all hole punches) and "hole-punch-exchange"
    Conns,       \* handshakes this node may have under way at once
    None, Torn

ASSUME CertsAssumption ==
    /\ (OwnCerts \cup PeerCerts) \cap {None, Torn} = {}
    /\ Unanchored \cap PeerCerts = {}
    /\ IsFiniteSet(OwnCerts)

VARIABLES
    cert, key,  \* tls-cert.pem and tls-key.pem: None, Torn, or whose they are
    saved,      \* pinned-peers.json: Torn, or pin id -> certificate
    node,       \* "down", "certified" (between the two writes), "plain", "tls"
    identity,   \* TlsContext.identity, or the one being written
    pinned,     \* TofuStore.pinned: pin id -> certificate
    conn,       \* handshakes of this process
    used        \* identities this node ran with, over all its runs

vars == <<cert, key, saved, node, identity, pinned, conn, used>>

disk == <<cert, key, saved>>

(* A peer known from an announcement is pinned under its fingerprint. *)
PinIds == PeerCerts \cup Unanchored

Pins == [PinIds -> PeerCerts \cup {None}]

NoPins == [id \in PinIds |-> None]

NoConn == [stage |-> "idle", id |-> None, shows |-> None]

Init ==
    /\ cert = None /\ key = None /\ saved = NoPins
    /\ node = "down" /\ identity = None
    /\ pinned = NoPins
    /\ conn = [c \in Conns |-> NoConn]
    /\ used = {}

-----------------------------------------------------------------------------
(* Starting *)

(* TofuStore::load: a file that does not parse counts as no pins. *)
LoadPins == pinned' = IF saved = Torn THEN NoPins ELSE saved

RunWith(own) ==
    /\ node' = "tls" /\ identity' = own
    /\ used' = used \cup {own}
    /\ LoadPins

RunPlain ==
    /\ node' = "plain" /\ identity' = None
    /\ UNCHANGED <<pinned, used>>

(* Both files exist.  One that does not parse leaves the node without TLS, *)
(* at this and at every later start.                                       *)
LoadIdentity ==
    /\ node = "down"
    /\ cert # None /\ key # None
    /\ IF Torn \in {cert, key} THEN RunPlain ELSE RunWith(cert)
    /\ UNCHANGED <<disk, conn>>

(* A key pair is generated unless both files exist; the certificate is     *)
(* written first.  An error ends the attempt.                              *)
WriteCertFirstUse ==
    /\ node = "down"
    /\ None \in {cert, key}
    /\ \E own \in OwnCerts \ (used \cup {cert}) :
          /\ cert' = own
          /\ RunWith(own)
    /\ UNCHANGED <<key, saved, conn>>

WriteCert ==
    /\ node = "down"
    /\ None \in {cert, key}
    /\ \/ \E own \in OwnCerts \ (used \cup {cert}) :
             /\ cert' = own
             /\ node' = "certified" /\ identity' = own
             /\ UNCHANGED <<pinned, used>>
       \/ cert' \in {cert, Torn} /\ RunPlain
    /\ UNCHANGED <<key, saved, conn>>

WriteKey ==
    /\ node = "certified"
    /\ \/ key' = identity /\ RunWith(identity)
       \/ key' \in {key, Torn} /\ RunPlain
    /\ UNCHANGED <<cert, saved, conn>>

-----------------------------------------------------------------------------
(* Handshakes *)

(* The certificate expected on first contact: the announced fingerprint. *)
Expected(id) == IF id \in Unanchored THEN None ELSE id

(* A bridge or the QUIC endpoint dials a peer: the pin id is that of the   *)
(* target, the certificate is whatever answers at its address.             *)
Dial(c, id, shows) ==
    /\ node = "tls"
    /\ conn[c].stage # "accepting"
    /\ conn' = [conn EXCEPT ![c] = [stage |-> "dialing", id |-> id, shows |-> shows]]
    /\ UNCHANGED <<disk, node, identity, pinned, used>>

VerdictUnexpected(id, shows) ==
    CASE pinned[id] = shows -> "accepted"
      [] pinned[id] = None  -> "accepting"
      [] OTHER              -> "refused"

Verdict(id, shows) ==
    CASE pinned[id] = shows                                  -> "accepted"
      [] pinned[id] = None /\ Expected(id) \in {None, shows} -> "accepting"
      [] OTHER                                               -> "refused"

(* verify_server_cert up to its call of pin; the lock of the store is not  *)
(* held between the two.                                                   *)
VerifyServerCert(c) ==
    /\ conn[c].stage = "dialing"
    /\ conn' = [conn EXCEPT ![c].stage = Verdict(conn[c].id, conn[c].shows)]
    /\ UNCHANGED <<disk, node, identity, pinned, used>>

(* insert, then the whole map is written to the file; a write that fails   *)
(* is ignored.                                                             *)
Pin(c) ==
    /\ conn[c].stage = "accepting"
    /\ pinned' = [pinned EXCEPT ![conn[c].id] = conn[c].shows]
    /\ saved' \in {pinned', saved, Torn}
    /\ conn' = [conn EXCEPT ![c].stage = "accepted"]
    /\ UNCHANGED <<cert, key, node, identity, used>>

-----------------------------------------------------------------------------
(* The process ends: between two of its writes, or within one. *)
Crash ==
    /\ node # "down"
    /\ node' = "down" /\ identity' = None /\ pinned' = NoPins
    /\ conn' = [c \in Conns |-> NoConn]
    /\ key' \in IF node = "certified" THEN {key, Torn} ELSE {key}
    /\ saved' \in IF \E c \in Conns : conn[c].stage = "accepting" THEN {saved, Torn} ELSE {saved}
    /\ UNCHANGED <<cert, used>>

Next ==
    \/ LoadIdentity \/ WriteCert \/ WriteKey \/ Crash
    \/ \E c \in Conns :
          \/ \E id \in PinIds, shows \in PeerCerts : Dial(c, id, shows)
          \/ VerifyServerCert(c)
          \/ Pin(c)

Spec == Init /\ [][Next]_vars

-----------------------------------------------------------------------------
(* Properties *)

(* The files, the store and the handshakes keep their shape. *)
TrustTypeOK ==
    /\ {cert, key} \subseteq OwnCerts \cup {None, Torn}
    /\ saved \in Pins \cup {Torn}
    /\ pinned \in Pins
    /\ node \in {"down", "certified", "plain", "tls"}
    /\ identity \in OwnCerts \cup {None}
    /\ used \subseteq OwnCerts
    /\ conn \in [Conns -> [stage : {"idle", "dialing", "accepting", "accepted", "refused"},
                           id    : PinIds \cup {None},
                           shows : PeerCerts \cup {None}]]

(* A peer that was announced is accepted exactly when it shows the          *)
(* certificate it announced (verify_server_cert).  It is never locked out   *)
(* by a pin of its own, and never mistaken: not when two first contacts     *)
(* pass the check before either pins, and not after the pin file was lost.  *)
AnnouncedPeersRecognised ==
    \A c \in Conns : conn[c].id \in PeerCerts =>
        /\ conn[c].stage \in {"accepting", "accepted"} => conn[c].shows = conn[c].id
        /\ conn[c].stage = "refused" => conn[c].shows # conn[c].id

(* A node has one identity for life: peers pin it, so an identity that was  *)
(* ever presented is the only one that is ever presented, although its      *)
(* first run may crash between the two writes of load_or_create.            *)
OneIdentity == \A x, y \in used : x = y
=============================================================================

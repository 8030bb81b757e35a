------------------------------ MODULE Identity ------------------------------
(***************************************************************************)
(* A device's key and certificate on disk (CryptographicIdentityManager),  *)
(* who makes them and who reads them (DeviceInfo.cpp, CreateSSLContext of  *)
(* ConnectionManager.cpp), and what a pairing leaves on the other device:  *)
(* its data and its certificate (PrimaryConnection.cpp).                   *)
(*                                                                         *)
(* A key is a number, a certificate the number of the key it was made for, *)
(* 0 is a file that is missing or does not parse.  Two kinds of caller use *)
(* the files of a device: its session, and the scanner's probe, which      *)
(* fills in a DeviceInfo every second.  m_mutex covers the check and the   *)
(* making of a certificate, but not the two together, and not the reading  *)
(* of the files by OpenSSL.                                                *)
(***************************************************************************)
EXTENDS Naturals, FiniteSets

CONSTANTS Devices,      \* two of them
          Scanning,     \* those whose scanner sends probes
          MaxKeys,      \* keys made, by any device
          MaxFailures,  \* files that cannot be opened, and crashes
          MaxSessions

Callers == (Devices \X {"session"}) \cup (Scanning \X {"probe"})

\* A device is none of the callers: lock[d] = d says that nobody holds it.
ASSUME IdentityBounds ==
  /\ \E d, e \in Devices : d # e /\ Devices = {d, e}
  /\ Scanning \subseteq Devices /\ Devices \cap Callers = {}
  /\ MaxKeys \in Nat

VARIABLES key, cert,   \* pkey.key and cert.key of certs/local
          valid,       \* the certificate has more than ten minutes left
          lock,        \* m_mutex: the caller that holds it, or its device
          step,        \* where a caller is
          made,        \* the key of the certificate a caller makes
          mode,        \* the session: "none", "pair" or "connect"
          told,        \* the fingerprint a device sent in the handshake
          chain, pkey, \* what a device's SSL context was made of
          verified,    \* devices whose side of the session is connected
          paired, pin, \* what a device keeps of the other: data.JSON, cert.key
          keys, failures, sessions,
          raced,       \* ghost: a certificate is made over a valid one
          torn,        \* ghost: ... and that was cut short, or a file failed
          excused,     \* ghost: the certificate ran out, or was made over, or a
                       \* file failed, since the handshake
          announced    \* ghost: the fingerprints a device has sent in a pairing

identityVars == <<key, cert, valid, lock, step, made, mode, told, chain, pkey,
                  verified, paired, pin, keys, failures, sessions, raced, torn,
                  excused, announced>>

files == <<key, cert, valid, lock, made, keys, raced, torn>>
session == <<mode, told, chain, pkey, verified, announced>>
store == <<paired, pin>>

Peer(d) == CHOOSE e \in Devices : e # d

Nothing == MaxKeys + 1  \* not known yet

Goes(c, to) == step' = [step EXCEPT ![c] = to]

(***************************************************************************)
(* Making the certificate.                                                 *)
(***************************************************************************)
AfterNoCheck(d) == "read"

\* IsCertificateValid, by GetThisDeviceInfo and CreateSSLContext alike.
AfterCheck(d) == IF valid[d] THEN "read" ELSE "make"

Checks(c) ==
  /\ step[c] = "check" /\ lock[c[1]] = c[1]
  /\ Goes(c, AfterCheck(c[1]))
  /\ UNCHANGED <<files, session, store, excused, failures, sessions>>

CertificateFirst(d, k) == /\ cert' = [cert EXCEPT ![d] = k]
                          /\ valid' = [valid EXCEPT ![d] = TRUE]
                          /\ UNCHANGED key

\* GenerateCertificate: a new key, its file, then the certificate for it.
FirstFile(d, k) == /\ key' = [key EXCEPT ![d] = k]
                   /\ UNCHANGED <<cert, valid>>

MakesKey(c) ==
  /\ step[c] = "make" /\ lock[c[1]] = c[1] /\ keys < MaxKeys
  /\ keys' = keys + 1
  /\ lock' = [lock EXCEPT ![c[1]] = c]
  /\ made' = [made EXCEPT ![c] = keys']
  /\ raced' = [raced EXCEPT ![c[1]] = valid[c[1]]]
  /\ excused' = IF valid[c[1]] THEN excused \cup {c[1]} ELSE excused
  /\ FirstFile(c[1], keys')
  /\ Goes(c, "cert")
  /\ UNCHANGED <<session, store, torn, failures, sessions>>

MakesCertificate(c) ==
  /\ step[c] = "cert"
  /\ key' = [key EXCEPT ![c[1]] = made[c]]
  /\ cert' = [cert EXCEPT ![c[1]] = made[c]]
  /\ valid' = [valid EXCEPT ![c[1]] = TRUE]
  /\ lock' = [lock EXCEPT ![c[1]] = c[1]]
  /\ raced' = [raced EXCEPT ![c[1]] = FALSE]
  /\ torn' = [torn EXCEPT ![c[1]] = FALSE]
  /\ Goes(c, "read")
  /\ UNCHANGED <<made, keys, session, store, excused, failures, sessions>>

\* A file cannot be opened: the function returns, its callers go on.
CannotOpen(c) ==
  /\ failures < MaxFailures
  /\ \/ step[c] = "make" /\ lock[c[1]] = c[1]
     \/ step[c] = "cert"
  /\ failures' = failures + 1
  /\ lock' = [lock EXCEPT ![c[1]] = c[1]]
  /\ torn' = [torn EXCEPT ![c[1]] = @ \/ raced[c[1]]]
  /\ raced' = [raced EXCEPT ![c[1]] = FALSE]
  /\ excused' = excused \cup {c[1]}
  /\ Goes(c, "read")
  /\ UNCHANGED <<key, cert, valid, made, keys, session, store, sessions>>

\* The thirty days of a certificate are over but for ten minutes.
Expires(d) ==
  /\ valid[d] /\ keys < MaxKeys
  /\ valid' = [valid EXCEPT ![d] = FALSE]
  /\ excused' = excused \cup {d}
  /\ UNCHANGED <<key, cert, lock, made, keys, raced, torn, step, session, store,
                 failures, sessions>>

(***************************************************************************)
(* Reading it.                                                             *)
(***************************************************************************)
\* GetThisDeviceInfo, GetCertificateFingerprint: what the probe sends is not
\* kept by anybody; the session's is the fingerprint the peer shall meet.
Fingerprint(c) ==
  /\ step[c] = "read" /\ lock[c[1]] = c[1]
  /\ c[2] = "probe" \/ told[c[1]] = Nothing
  /\ IF c[2] = "probe" THEN UNCHANGED <<told, announced, excused>>
     ELSE /\ told' = [told EXCEPT ![c[1]] = cert[c[1]]]
          /\ announced' = IF mode = "pair"
                          THEN [announced EXCEPT ![c[1]] = @ \cup {cert[c[1]]}]
                          ELSE announced
          /\ excused' = IF cert[c[1]] = 0 \/ torn[c[1]] \/ ~valid[c[1]]
                           \/ raced[c[1]] THEN excused
                        ELSE excused \ {c[1]}
  /\ Goes(c, "idle")
  /\ UNCHANGED <<files, mode, chain, pkey, verified, store, failures, sessions>>

\* use_certificate_chain_file, use_private_key_file: a file that is being
\* written may not parse.
BeingWritten(d) == lock[d] # d

LoadsChain(c) ==
  /\ step[c] = "read" /\ c[2] = "session" /\ told[c[1]] # Nothing
  /\ \E read \in {cert[c[1]]} \cup (IF BeingWritten(c[1]) THEN {0} ELSE {}) :
       chain' = [chain EXCEPT ![c[1]] = read]
  /\ Goes(c, "load")
  /\ UNCHANGED <<files, mode, told, pkey, verified, announced, store, excused,
                 failures, sessions>>

LoadsKey(c) ==
  /\ step[c] = "load"
  /\ pkey' = [pkey EXCEPT ![c[1]] = key[c[1]]]
  /\ Goes(c, "idle")
  /\ UNCHANGED <<files, mode, told, chain, verified, announced, store, excused,
                 failures, sessions>>

(***************************************************************************)
(* The session.                                                            *)
(***************************************************************************)
ProbeBegins(c) ==
  /\ c[2] = "probe" /\ step[c] = "idle"
  /\ ~valid[c[1]]
  /\ Goes(c, "check")
  /\ UNCHANGED <<files, session, store, excused, failures, sessions>>

\* A pairing, or a connection of two devices that are on each other's list
\* (GetPairedDevices reads data.JSON).
SessionBegins ==
  /\ mode = "none" /\ sessions < MaxSessions
  /\ \A d \in Devices : step[<<d, "session">>] = "idle"
  /\ mode' \in {"pair"} \cup (IF \A d \in Devices : paired[d] THEN {"connect"} ELSE {})
  /\ sessions' = sessions + 1
  /\ step' = [c \in Callers |-> IF c[2] = "session" THEN "check" ELSE step[c]]
  /\ UNCHANGED <<files, told, chain, pkey, verified, announced, store, excused,
                 failures>>

\* The handshake has come to its end on both: CreateSSLContext.
MakesContext(d) ==
  /\ mode # "none" /\ step[<<d, "session">>] = "idle"
  /\ \A e \in Devices : told[e] # Nothing
  /\ chain[d] = Nothing
  /\ Goes(<<d, "session">>, "check")
  /\ UNCHANGED <<files, session, store, excused, failures, sessions>>

Whole(d) == chain[d] = pkey[d] /\ chain[d] \notin {0, Nothing}

MatchesAnything(d) == TRUE

PeerCertificateFingerprint(d) == chain[Peer(d)]

\* VerifyPairingPeerFingerprint.
Matches(d) == mode = "pair" => PeerCertificateFingerprint(d) = told[Peer(d)]

\* The TLS handshake: the certificate of the peer is pinned, or it is a pairing.
Accepts(d) ==
  /\ \A e \in Devices : Whole(e) /\ (mode = "connect" => pin[e] # 0)
  /\ Matches(d)

Settled == mode # "none" /\ \A d \in Devices : pkey[d] # Nothing

\* Each may fail to write.
SavePairData(d, saved) == paired' = [paired EXCEPT ![d] = @ \/ saved]
SavePeerCertificate(d) == [pin EXCEPT ![d] = chain[Peer(d)]]
SaveCertificate(d, saved) ==
  pin' = IF mode = "pair" /\ saved THEN SavePeerCertificate(d) ELSE pin

\* CONNECTED, and the two saves.
Verifies(d) ==
  /\ Settled /\ d \notin verified
  /\ Accepts(d)
  /\ verified' = verified \cup {d}
  /\ \E saved \in BOOLEAN \X BOOLEAN :
       /\ (saved # <<TRUE, TRUE>>) => failures < MaxFailures
       /\ failures' = IF saved = <<TRUE, TRUE>> THEN failures ELSE failures + 1
       /\ SavePairData(d, saved[1])
       /\ SaveCertificate(d, saved[2])
  /\ UNCHANGED <<files, step, mode, told, chain, pkey, announced, excused,
                 sessions>>

\* The session ends: both are connected, or one of them refuses.
SessionEnds ==
  /\ Settled
  /\ \/ verified = Devices
     \/ \E d \in Devices : ~Accepts(d)
  /\ mode' = "none" /\ verified' = {}
  /\ told' = [d \in Devices |-> Nothing]
  /\ chain' = [d \in Devices |-> Nothing]
  /\ pkey' = [d \in Devices |-> Nothing]
  /\ UNCHANGED <<files, step, announced, store, excused, failures, sessions>>

\* RemovePairedDevice deletes the directory of the other device.
RemovePairedDevice(d) ==
  /\ mode = "none"
  /\ paired[d] \/ pin[d] # 0
  /\ paired' = [paired EXCEPT ![d] = FALSE]
  /\ pin' = [pin EXCEPT ![d] = 0]
  /\ UNCHANGED <<files, step, session, excused, failures, sessions>>

\* The process is killed; a file it was writing is old, new or empty.
Crash(d) ==
  /\ failures < MaxFailures
  /\ failures' = failures + 1
  /\ \E w \in {key[d], 0} : key' = [key EXCEPT ![d] = IF lock[d] # d THEN w ELSE @]
  /\ torn' = [torn EXCEPT ![d] = @ \/ raced[d]]
  /\ raced' = [raced EXCEPT ![d] = FALSE]
  /\ lock' = [lock EXCEPT ![d] = d]
  /\ step' = [c \in Callers |-> IF c[1] = d \/ c[2] = "session" THEN "idle" ELSE step[c]]
  /\ mode' = "none" /\ verified' = {}
  /\ told' = [e \in Devices |-> Nothing]
  /\ chain' = [e \in Devices |-> Nothing]
  /\ pkey' = [e \in Devices |-> Nothing]
  /\ \A e \in Devices \ {d} : lock[e] = e
  /\ UNCHANGED <<cert, valid, made, keys, announced, store, excused, sessions>>

IdentityInit ==
  /\ key = [d \in Devices |-> 0] /\ cert = key
  /\ valid = [d \in Devices |-> FALSE]
  /\ lock = [d \in Devices |-> d]
  /\ step = [c \in Callers |-> "idle"]
  /\ made = [c \in Callers |-> 0]
  /\ mode = "none"
  /\ told = [d \in Devices |-> Nothing] /\ chain = told /\ pkey = told
  /\ verified = {}
  /\ paired = [d \in Devices |-> FALSE]
  /\ pin = [d \in Devices |-> 0]
  /\ keys = 0 /\ failures = 0 /\ sessions = 0
  /\ raced = [d \in Devices |-> FALSE] /\ torn = raced
  /\ excused = {}
  /\ announced = [d \in Devices |-> {}]

IdentityNext ==
  \/ \E c \in Callers :
       \/ Checks(c) \/ MakesKey(c) \/ MakesCertificate(c) \/ CannotOpen(c)
       \/ Fingerprint(c) \/ LoadsChain(c) \/ LoadsKey(c) \/ ProbeBegins(c)
  \/ \E d \in Devices :
       \/ Expires(d) \/ MakesContext(d) \/ Verifies(d) \/ RemovePairedDevice(d)
       \/ Crash(d)
  \/ SessionBegins \/ SessionEnds

IdentitySpec == IdentityInit /\ [][IdentityNext]_identityVars

IdentityTypeOK ==
  /\ {key, cert, pin} \subseteq [Devices -> 0..MaxKeys]
  /\ {valid, paired, raced, torn} \subseteq [Devices -> BOOLEAN]
  /\ lock \in [Devices -> Devices \cup Callers]
  /\ \A d \in Devices : lock[d] = d \/ (lock[d] \in Callers /\ lock[d][1] = d)
  /\ step \in [Callers -> {"idle", "check", "make", "cert", "read", "load"}]
  /\ made \in [Callers -> 0..MaxKeys]
  /\ mode \in {"none", "pair", "connect"}
  /\ {told, chain, pkey} \subseteq [Devices -> 0..MaxKeys + 1]
  /\ verified \subseteq Devices /\ excused \subseteq Devices
  /\ announced \in [Devices -> SUBSET (0..MaxKeys)] /\ keys \in 0..MaxKeys

(***************************************************************************)
(* A certificate that passes for valid is the key's, however the process   *)
(* ended: the key is written first, so a crash leaves a certificate that   *)
(* is made again.  Only a caller that lost the race for a new certificate  *)
(* and is then cut short breaks that (CryptographicIdentityManager.cpp:46, *)
(* DeviceInfo.cpp:19, ConnectionManager.cpp:372).                          *)
(***************************************************************************)
IdentityIsWhole ==
  \A d \in Devices : valid[d] /\ lock[d] = d /\ ~torn[d] => cert[d] = key[d]

(***************************************************************************)
(* A pairing that nothing disturbed comes about: the certificates the TLS  *)
(* handshake shows are those the devices announced when the user approved. *)
(***************************************************************************)
PairingMeets ==
  Settled /\ mode = "pair" /\ excused = {} => \A d \in Devices : Accepts(d)

(***************************************************************************)
(* Whatever happened in between, what a device pins is a certificate the   *)
(* other announced in a pairing (PrimaryConnection.cpp:18-53, 158-196).    *)
(***************************************************************************)
PinWasAnnounced ==
  \A d \in Devices : pin[d] # 0 => pin[d] \in announced[Peer(d)]

IdentityIsSound == IdentityIsWhole /\ PairingMeets /\ PinWasAnnounced
=============================================================================

---------------------------- MODULE LogIntegrity ----------------------------
(***************************************************************************)
(* The hash chain and the signed checkpoints of the application log        *)
(* (logging/integrity.go, logging/signing.go, the write path of            *)
(* logging/logging.go), as operators on the integrity state, and the       *)
(* verifier of a signed window (tests/env/lib/tc29integrity/main.go).      *)
(* A hash is the sequence of what was hashed: no two inputs collide.       *)
(***************************************************************************)
EXTENDS Integers, Sequences, FiniteSets, SequencesExt

CONSTANTS
    Certs,    \* the log-signing certificates there are
    KeyOf,    \* the key of each certificate
    NoCert,   \* a nil *logSigner
    NoKey,    \* no signature on a record
    BadSign,  \* AttrSignatureError in place of a signature
    NoAlg     \* hashing is disabled

ASSUME CertsAssumption ==
    /\ NoCert \notin Certs
    /\ DOMAIN KeyOf = Certs
    /\ {NoKey, BadSign} \cap {KeyOf[c] : c \in Certs} = {}

\* What a record says, as far as a verifier tells records apart.
Event == [kind |-> "event", key |-> NoKey]
AnchorBody == [kind |-> "anchor", key |-> NoKey]
Announcement(c) == [kind |-> "announcement", key |-> KeyOf[c]]

NoAnchor == [from |-> 0, to |-> 0, key |-> NoKey, statement |-> <<>>]

\* The state before any option is applied; lost holds the sequence numbers of
\* the records whose write will fail, and written what reached the output.
NewIntegrity(lost) ==
    [algorithm |-> NoAlg, chainLen |-> 0, seq |-> 0, chain |-> <<>>, sinceAnchor |-> 0,
     anchorFrom |-> 0, restartPending |-> FALSE, signer |-> NoCert, segmentID |-> 0,
     windowID |-> 0, lost |-> lost, written |-> <<>>]

chainingEnabled(s) == s.algorithm # NoAlg /\ s.chainLen > 0

MutantResetChain(s) ==
    [s EXCEPT !.sinceAnchor = 0,
              !.anchorFrom = s.seq,
              !.segmentID = @ + 1,
              !.windowID = @ + 1,
              !.chain = IF s.algorithm = NoAlg THEN <<>> ELSE <<"genesis", s.algorithm>>]

\* Sequence numbers are never given out twice, so only the chain starts again.
resetChain(s) ==
    [s EXCEPT !.sinceAnchor = 0,
              !.anchorFrom = s.seq,
              !.restartPending = TRUE,
              !.segmentID = @ + 1,
              !.windowID = @ + 1,
              !.chain = IF s.algorithm = NoAlg THEN <<>> ELSE <<"genesis", s.algorithm>>]

\* "none" leaves the chain as it is.
configureIntegrity(s, alg) ==
    IF alg = NoAlg THEN [s EXCEPT !.algorithm = NoAlg]
                   ELSE resetChain([s EXCEPT !.algorithm = alg])

configureChainLength(s, length) == resetChain([s EXCEPT !.chainLen = length])

advanceChain(previous, seq, body) == Append(previous, <<seq, body>>)

-----------------------------------------------------------------------------
(* Writing records.                                                        *)

\* The attributes of the next record; one outside a chain has only its number.
stamp(s, body) ==
    LET chained == chainingEnabled(s) IN
    [seq |-> s.seq, algorithm |-> s.algorithm, body |-> body, chained |-> chained,
     segment |-> IF chained THEN s.segmentID ELSE 0,
     window |-> IF chained THEN s.windowID ELSE 0,
     prev |-> IF chained THEN s.chain ELSE <<>>,
     chain |-> IF chained THEN advanceChain(s.chain, s.seq, body) ELSE <<>>,
     restart |-> chained /\ s.restartPending,
     anchor |-> NoAnchor]

\* What stamping does to the state.
Stamped(s, record) ==
    CASE s.algorithm = NoAlg -> s
      [] s.algorithm # NoAlg /\ ~record.chained -> [s EXCEPT !.seq = @ + 1]
      [] OTHER -> [s EXCEPT !.seq = @ + 1, !.chain = record.chain, !.sinceAnchor = @ + 1,
                            !.restartPending = FALSE]

\* A failed write is reported on the same output and the record is gone; a
\* record without integrity attributes is nothing to a verifier.
Output(s, record) ==
    IF s.algorithm = NoAlg \/ record.seq \in s.lost
      THEN s ELSE [s EXCEPT !.written = Append(@, record)]

writeRecord(s, body) == LET record == stamp(s, body) IN Output(Stamped(s, record), record)

anchorDue(s) == chainingEnabled(s) /\ s.sinceAnchor >= s.chainLen

MutantNextAnchorFrom(s) == s.seq

\* The next window starts after the anchor, whose own number closes this one.
NextAnchorFrom(s) == s.seq + 1

\* What a checkpoint's signature is computed over.
Statement(record, from, to) ==
    <<record.algorithm, record.segment, record.window, from, to, record.prev, record.chain>>

\* The key that signs an anchor now: none, an error, or the signer's.
SigningKey(s, expired) ==
    CASE s.signer = NoCert -> NoKey
      [] s.signer # NoCert /\ s.signer \in expired -> BadSign
      [] OTHER -> KeyOf[s.signer]

signAnchor(s, expired, record) ==
    LET key == SigningKey(s, expired) IN
    [from |-> s.anchorFrom, to |-> s.seq, key |-> key,
     statement |-> IF key \in {NoKey, BadSign} THEN <<>>
                   ELSE Statement(record, s.anchorFrom, s.seq)]

finishAnchor(s) == [s EXCEPT !.sinceAnchor = 0, !.windowID = @ + 1]

writeAnchor(s, expired) ==
    LET bare == stamp(s, AnchorBody)
        record == [bare EXCEPT !.anchor = signAnchor(s, expired, bare)]
        stamped == [Stamped(s, record) EXCEPT !.anchorFrom = NextAnchorFrom(s)]
    IN  finishAnchor(Output(stamped, record))

writeEvent(s, expired) ==
    LET after == writeRecord(s, Event)
    IN  IF anchorDue(after) THEN writeAnchor(after, expired) ELSE after

\* n records, one after the other, with the anchors that become due.
writeEvents(s, expired, n) ==
    LET after[i \in 0 .. n] == IF i = 0 THEN s ELSE writeEvent(after[i - 1], expired)
    IN  after[n]

-----------------------------------------------------------------------------
(* Certificates.                                                           *)

MutantAuthenticate(s, expired, c) ==
    writeAnchor([writeRecord(s, Announcement(c)) EXCEPT !.signer = c], expired)

\* The announcement and the checkpoint of the old key come before the new key;
\* without the old key's signature the old one stays.
Authenticate(s, expired, c) ==
    LET anchored == writeAnchor(writeRecord(s, Announcement(c)), expired)
    IN  IF SigningKey(s, expired) = BadSign THEN anchored ELSE [anchored EXCEPT !.signer = c]

\* The files can be read and belong together, and the certificate is one for
\* log signing that is valid now; NoCert is configured by empty paths.
loadLogSigner(expired) == Certs \ expired

\* RotateSigningCertificate announces a change only when there is an old signer
\* and a chain to announce it in.
MustAuthenticate(s, expired, c) ==
    /\ c \in loadLogSigner(expired)
    /\ s.signer \notin {NoCert, c}
    /\ chainingEnabled(s)

\* The other calls of RotateSigningCertificate: no certificate configured, one
\* that cannot be loaded, the first one, the same one, or no chain.
RotateQuietly(s, expired, c) ==
    IF c \in loadLogSigner(expired) /\ s.signer = NoCert THEN [s EXCEPT !.signer = c] ELSE s

-----------------------------------------------------------------------------
(* The verifier.                                                           *)

Signed(record) == record.anchor.key \notin {NoKey, BadSign}

\* Where the records with a signed anchor's window id are.
SignedWindow(records, anchor) == {i \in DOMAIN records : records[i].window = anchor.window}

\* Ordered by their numbers, the records are the ones the anchor counts, they end
\* with it, each follows from its predecessor, and the signature is over what
\* they say.
verifyWindow(records, window, anchor) ==
    LET from == anchor.anchor.from
        to == anchor.anchor.to
    IN  /\ {records[i].seq : i \in window} = from .. to
        /\ \A i, j \in window : records[i].seq = records[j].seq => i = j
        /\ \A i \in window :
             /\ records[i].algorithm = anchor.algorithm
             /\ records[i].segment = anchor.segment
             /\ \A j \in window :
                  records[i].seq = records[j].seq + 1 => records[i].prev = records[j].chain
             /\ records[i].chain
                  = advanceChain(records[i].prev, records[i].seq, records[i].body)
             /\ records[i].seq = to => records[i].body.kind = "anchor"
        /\ anchor.anchor.statement = Statement(anchor, from, to)

=============================================================================

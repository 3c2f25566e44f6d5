------------------------------ MODULE TrustStore ------------------------------
(***************************************************************************)
(* The trust-on-first-use store of src/crypto/trust.ts: trustPeer(),       *)
(* revokePeer() and isPeerTrusted() on the file .archipel/trust.json.      *)
(*                                                                         *)
(* Every operation loads the whole file and, when it changes something,    *)
(* saves the whole store it has in memory.  Nothing serialises operations, *)
(* and fs.writeFile truncates the file when it opens it and writes the     *)
(* store afterwards, so that others can run at four points of one          *)
(* operation; each of its file operations can fail, and the process can    *)
(* crash at any of them.                                                   *)
(***************************************************************************)
EXTENDS Integers, FiniteSets

CONSTANTS
    Node,            \* node ids
    Fingerprint,     \* fingerprints of their public keys
    NOps,            \* bound: operations called
    SerialWriters,   \* the callers never run trustPeer and revokePeer at once
    NoEntry

Op == 1 .. NOps      \* operations are numbered in the order they are called

(***************************************************************************)
(* A TrustEntry without its dates and keys, and a store.                   *)
(***************************************************************************)
Entry == [fingerprint : Fingerprint, revoked : BOOLEAN]
Store == [Node -> Entry \cup {NoEntry}]
NoEntries == [n \in Node |-> NoEntry]

ASSUME TrustAssumption ==
    /\ NOps \in Nat
    /\ SerialWriters \in BOOLEAN
    /\ IsFiniteSet(Node)
    /\ NoEntry \notin Entry \cup Fingerprint

(***************************************************************************)
(* The length of a store's JSON, as far as two stores differ in it: every  *)
(* entry has the same length but for the word that revoked is, "true" or   *)
(* "false", and more entries are longer than fewer.                        *)
(***************************************************************************)
Size(s) ==
    (Cardinality(Node) + 1) * Cardinality({n \in Node : s[n] # NoEntry})
      + Cardinality({n \in Node : s[n] # NoEntry /\ ~s[n].revoked})

(***************************************************************************)
(* The file: missing, the JSON of a store, the beginning of one (empty     *)
(* after it was opened for writing), or the JSON of one store with the     *)
(* tail of a longer one.                                                   *)
(***************************************************************************)
FileState == {"missing", "json", "partial", "garbage"}

VARIABLES
    file,      \* trust.json: its state, store and length
    pc,        \* the await each operation is suspended in, or how it ended
    call,      \* which operation it is
    memory,    \* the store it has loaded and changed
    answer,    \* what isPeerTrusted() returned
    before     \* history: the operations that had succeeded when it was called

vars == <<file, pc, call, memory, answer, before>>

-----------------------------------------------------------------------------
Active == {"loading", "opening", "writing"}
Ended  == {"ok", "parseError", "ioError", "mitm", "notFound", "crashed"}
Kind   == {"trust", "revoke", "query"}
Request == [kind : Kind, node : Node, fingerprint : Fingerprint \cup {NoEntry}]

TypeOK ==
    /\ file \in [state : FileState, store : Store, size : Nat]
    /\ pc \in [Op -> {"idle"} \cup Active \cup Ended]
    /\ call \in [Op -> Request \cup {NoEntry}]
    /\ memory \in [Op -> Store]
    /\ answer \in [Op -> BOOLEAN]
    /\ before \in [Op -> SUBSET Op]

Init ==
    /\ file = [state |-> "missing", store |-> NoEntries, size |-> 0]
    /\ pc = [j \in Op |-> "idle"]
    /\ call = [j \in Op |-> NoEntry]
    /\ memory = [j \in Op |-> NoEntries]
    /\ answer = [j \in Op |-> FALSE]
    /\ before = [j \in Op |-> {}]

-----------------------------------------------------------------------------
(***************************************************************************)
(* Operation j is called: its first await is fs.readFile.                  *)
(***************************************************************************)
Writes(j) == pc[j] \in Active /\ call[j].kind \in {"trust", "revoke"}

Call(j, kind, node, fingerprint) ==
    /\ pc[j] = "idle"
    /\ \A k \in Op : k < j => pc[k] # "idle"
    /\ SerialWriters /\ kind # "query" => \A k \in Op : ~Writes(k)
    /\ pc' = [pc EXCEPT ![j] = "loading"]
    /\ call' = [call EXCEPT ![j] =
                  [kind |-> kind, node |-> node, fingerprint |-> fingerprint]]
    /\ before' = [before EXCEPT ![j] = {k \in Op : pc[k] = "ok"}]
    /\ UNCHANGED <<file, memory, answer>>

(***************************************************************************)
(* Mutant: an empty file is an empty store.                                *)
(***************************************************************************)
ReadableEmpty ==
    \/ file.state \in {"missing", "json"}
    \/ file.state = "partial" /\ file.size = 0

(***************************************************************************)
(* loadTrustStore(): a missing file is an empty store, and what is not     *)
(* JSON is an error.                                                       *)
(***************************************************************************)
Readable == file.state \in {"missing", "json"}

(***************************************************************************)
(* What trustPeer() and revokePeer() do to the store in memory.            *)
(***************************************************************************)
\* Mutants: a new entry without its revoked field; revoked never set; the
\* fingerprint not compared.
ApprovedBare(s, n, fingerprint) ==
    [s EXCEPT ![n] = IF s[n] = NoEntry THEN [fingerprint |-> fingerprint]
                     ELSE [fingerprint |-> fingerprint, revoked |-> FALSE]]
RevokedInName(s, n) == s
KeyNeverChanged(s, n, fingerprint) == FALSE

Approved(s, n, fingerprint) ==
    [s EXCEPT ![n] = [fingerprint |-> fingerprint, revoked |-> FALSE]]

Revoked(s, n) == [s EXCEPT ![n].revoked = TRUE]

KeyChanged(s, n, fingerprint) ==
    s[n] # NoEntry /\ s[n].fingerprint # fingerprint

Trusted(s, n) == s[n] # NoEntry /\ ~s[n].revoked

LoadFails(j) ==
    /\ pc[j] = "loading"
    /\ ~Readable
    /\ pc' = [pc EXCEPT ![j] = "parseError"]
    /\ UNCHANGED <<file, call, memory, answer, before>>

(***************************************************************************)
(* trustPeer() has loaded the store.  A known node with another            *)
(* fingerprint is refused; otherwise it is entered, or its entry restored. *)
(***************************************************************************)
LoadToTrust(j) ==
    LET n == call[j].node
        fingerprint == call[j].fingerprint
    IN  /\ pc[j] = "loading"
        /\ call[j].kind = "trust"
        /\ Readable
        /\ IF KeyChanged(file.store, n, fingerprint)
           THEN /\ pc' = [pc EXCEPT ![j] = "mitm"]
                /\ UNCHANGED memory
           ELSE /\ pc' = [pc EXCEPT ![j] = "opening"]
                /\ memory' = [memory EXCEPT ![j] =
                                Approved(file.store, n, fingerprint)]
        /\ UNCHANGED <<file, call, answer, before>>

(***************************************************************************)
(* revokePeer() has loaded the store.                                      *)
(***************************************************************************)
LoadToRevoke(j) ==
    LET n == call[j].node
    IN  /\ pc[j] = "loading"
        /\ call[j].kind = "revoke"
        /\ Readable
        /\ IF file.store[n] = NoEntry
           THEN /\ pc' = [pc EXCEPT ![j] = "notFound"]
                /\ UNCHANGED memory
           ELSE /\ pc' = [pc EXCEPT ![j] = "opening"]
                /\ memory' = [memory EXCEPT ![j] = Revoked(file.store, n)]
        /\ UNCHANGED <<file, call, answer, before>>

(***************************************************************************)
(* isPeerTrusted() has loaded the store.                                   *)
(***************************************************************************)
LoadToQuery(j) ==
    /\ pc[j] = "loading"
    /\ call[j].kind = "query"
    /\ Readable
    /\ answer' = [answer EXCEPT ![j] = Trusted(file.store, call[j].node)]
    /\ pc' = [pc EXCEPT ![j] = "ok"]
    /\ UNCHANGED <<file, call, memory, before>>

(***************************************************************************)
(* Mutant: the file is opened without truncating it.                       *)
(***************************************************************************)
OpenInPlace(j) ==
    /\ pc[j] = "opening"
    /\ file' = [file EXCEPT !.state = IF @ = "missing" THEN "partial" ELSE @]
    /\ pc' = [pc EXCEPT ![j] = "writing"]
    /\ UNCHANGED <<call, memory, answer, before>>

(***************************************************************************)
(* saveTrustStore(): mkdir, then fs.writeFile opens the file with flag 'w',*)
(* which truncates it.                                                     *)
(***************************************************************************)
Open(j) ==
    /\ pc[j] = "opening"
    /\ file' = [state |-> "partial", store |-> NoEntries, size |-> 0]
    /\ pc' = [pc EXCEPT ![j] = "writing"]
    /\ UNCHANGED <<call, memory, answer, before>>

(***************************************************************************)
(* readFile, mkdir or the open of fs.writeFile fails: the call is rejected *)
(* and the file is as it was.                                              *)
(***************************************************************************)
IOError(j) ==
    /\ pc[j] \in {"loading", "opening"}
    /\ pc' = [pc EXCEPT ![j] = "ioError"]
    /\ UNCHANGED <<file, call, memory, answer, before>>

(***************************************************************************)
(* fs.writeFile writes the JSON from the start of the file.  When another  *)
(* operation has written a longer one since the truncation, its tail stays.*)
(***************************************************************************)
Saved(j) ==
    IF file.size > Size(memory[j])
    THEN [file EXCEPT !.state = "garbage", !.store = NoEntries]
    ELSE [state |-> "json", store |-> memory[j], size |-> Size(memory[j])]

Write(j) ==
    /\ pc[j] = "writing"
    /\ file' = Saved(j)
    /\ pc' = [pc EXCEPT ![j] = "ok"]
    /\ UNCHANGED <<call, memory, answer, before>>

(***************************************************************************)
(* The write fails: nothing was written, or only the beginning (the disk   *)
(* is full: bytes that the file already has are overwritten, and some of   *)
(* those that would lengthen it are missing), or everything and the close  *)
(* failed.  The call is rejected, and nobody repairs the file.             *)
(***************************************************************************)
WriteFails(j) ==
    /\ pc[j] = "writing"
    /\ \/ UNCHANGED file
       \/ file' = Saved(j)
       \/ \E n \in file.size .. Size(memory[j]) - 1 :
             file' = [state |-> "partial", store |-> NoEntries, size |-> n]
    /\ pc' = [pc EXCEPT ![j] = "ioError"]
    /\ UNCHANGED <<call, memory, answer, before>>

(***************************************************************************)
(* The process dies and is started again: the file stays as it is.         *)
(***************************************************************************)
Crash ==
    /\ \E j \in Op : pc[j] \in Active
    /\ pc' = [j \in Op |-> IF pc[j] \in Active THEN "crashed" ELSE pc[j]]
    /\ UNCHANGED <<file, call, memory, answer, before>>

Step(j) ==
    \/ LoadFails(j)
    \/ LoadToTrust(j)
    \/ LoadToRevoke(j)
    \/ LoadToQuery(j)
    \/ Open(j)
    \/ IOError(j)
    \/ Write(j)
    \/ WriteFails(j)

Next ==
    \/ \E j \in Op : Step(j)
    \/ \E j \in Op, n \in Node, fp \in Fingerprint : Call(j, "trust", n, fp)
    \/ \E j \in Op, n \in Node, kind \in {"revoke", "query"} :
           Call(j, kind, n, NoEntry)
    \/ Crash

Spec == Init /\ [][Next]_vars

-----------------------------------------------------------------------------
Succeeded(j, kind, n) ==
    pc[j] = "ok" /\ call[j].kind = kind /\ call[j].node = n

Called(j, kind, n) ==
    pc[j] # "idle" /\ call[j].kind = kind /\ call[j].node = n

(***************************************************************************)
(* isPeerTrusted() called after a revokePeer() that succeeded does not     *)
(* answer that the peer is trusted, unless trustPeer() was called for it   *)
(* again: no other operation writes the revocation away.                   *)
(***************************************************************************)
RevocationIsSeen ==
    \A q, r \in Op, n \in Node :
        /\ Succeeded(q, "query", n) /\ answer[q]
        /\ Succeeded(r, "revoke", n) /\ r \in before[q]
        => \E t \in Op : Called(t, "trust", n) /\ t \notin before[r]

(***************************************************************************)
(* isPeerTrusted() called after a trustPeer() that succeeded does not      *)
(* answer that the peer is unknown, unless a revokePeer() was called: a    *)
(* file that is just being written is an error and not an empty store.     *)
(***************************************************************************)
ApprovalIsSeen ==
    \A q, t \in Op, n \in Node :
        /\ Succeeded(q, "query", n) /\ ~answer[q]
        /\ Succeeded(t, "trust", n) /\ t \in before[q]
        => \E r \in Op : Called(r, "revoke", n)

(***************************************************************************)
(* Trust on first use: a node has one fingerprint for ever.  Two calls of  *)
(* trustPeer() for it that succeed had the same one, across revocations    *)
(* and crashes.                                                            *)
(***************************************************************************)
OneFingerprint ==
    \A t, u \in Op, n \in Node :
        Succeeded(t, "trust", n) /\ Succeeded(u, "trust", n) =>
            call[t].fingerprint = call[u].fingerprint

(***************************************************************************)
(* The file cannot be read only while trustPeer() or revokePeer() writes   *)
(* it, or after one of them crashed or failed: an operation that succeeds, *)
(* or that refuses, leaves a file that can be read.                        *)
(***************************************************************************)
UnreadableIsTransient ==
    ~Readable => \E j \in Op :
        /\ pc[j] \in {"writing", "crashed", "ioError"}
        /\ call[j].kind \in {"trust", "revoke"}

(***************************************************************************)
(* However operations overlap, whatever crashes: nobody is trusted whom    *)
(* nobody approved, and no key is pinned that was not approved for its     *)
(* node.  Half a file, or two mixed ones, is an error and never a store.   *)
(***************************************************************************)
IsApproved(n, fingerprint) ==
    \E t \in Op : Called(t, "trust", n) /\ call[t].fingerprint = fingerprint

EntriesAreApproved(s) ==
    \A n \in Node : s[n] # NoEntry => IsApproved(n, s[n].fingerprint)

OnlyApprovedIsTrusted ==
    /\ EntriesAreApproved(file.store)
    /\ \A j \in Op : EntriesAreApproved(memory[j])
    /\ \A q \in Op, n \in Node :
          Succeeded(q, "query", n) /\ answer[q] =>
              \E t \in Op : Called(t, "trust", n)

(***************************************************************************)
(* With one writer at a time, the store is one ledger: a change takes      *)
(* effect when the file is truncated, a query answers from the ledger of   *)
(* one moment of its call, and a crash or an error while the file is       *)
(* written can lose everything, and nothing else can.                      *)
(***************************************************************************)
Writing == {j \in Op : pc[j] = "writing"}

Present == IF Writing = {} THEN file.store ELSE memory[CHOOSE j \in Writing : TRUE]

StageOf(p) ==
    CASE p \in {"loading", "opening"} -> "called"
      [] p = "writing" -> "applied"
      [] OTHER -> p

Stage == [j \in Op |-> StageOf(pc[j])]

KeyOf(s) == [n \in Node |-> IF s[n] = NoEntry THEN NoEntry ELSE s[n].fingerprint]

TrustedIn(s) == {n \in Node : Trusted(s, n)}

Ledger == INSTANCE TrustLedger WITH
    NoKey <- NoEntry, stage <- Stage,
    key <- KeyOf(Present), trusted <- TrustedIn(Present),
    lost <- ~Readable /\ Writing = {}

ImplementsTrustLedger == Ledger!Spec

(***************************************************************************)
(* The inductive strengthening.  Sound holds in any case; the rest while   *)
(* one writer runs at a time: the file is empty while its writer writes,   *)
(* and can stay unreadable when that crashed or failed; what a writer is   *)
(* about to save is its own change of what the file still has; the store   *)
(* that can be read, and the one a writer has in memory, agree with every  *)
(* operation that has succeeded.                                           *)
(***************************************************************************)
Saving(j) == pc[j] \in {"opening", "writing"}

Requests ==
    \A j \in Op :
        /\ before[j] \subseteq {k \in Op : pc[k] = "ok"}
        /\ pc[j] # "idle" => call[j] \in Request
        /\ pc[j] # "idle" /\ call[j].kind = "trust" => call[j].fingerprint \in Fingerprint
        /\ Saving(j) => Writes(j)

OneWriter == \A j, k \in Op : Writes(j) /\ Writes(k) => j = k

FileIsOwned ==
    /\ file.state # "garbage"
    /\ file.state # "json" => file.store = NoEntries
    /\ \A j \in Op : pc[j] = "writing" => file.state = "partial" /\ file.size = 0

HasLoaded ==
    \A j \in Op : pc[j] = "opening" =>
        LET n == call[j].node
            fingerprint == call[j].fingerprint
        IN  /\ Readable
            /\ call[j].kind = "trust" =>
                  /\ memory[j] = Approved(file.store, n, fingerprint)
                  /\ ~KeyChanged(file.store, n, fingerprint)
            /\ call[j].kind = "revoke" =>
                  /\ memory[j] = Revoked(file.store, n)
                  /\ file.store[n] # NoEntry

Agrees(s) ==
    \A j \in Op, n \in Node :
        /\ Succeeded(j, "revoke", n) =>
              ~Trusted(s, n) \/ \E t \in Op : Called(t, "trust", n) /\ t \notin before[j]
        /\ Succeeded(j, "trust", n) =>
              /\ s[n] # NoEntry /\ s[n].fingerprint = call[j].fingerprint
              /\ Trusted(s, n) \/ \E r \in Op : Called(r, "revoke", n)

HasItsChange(j) ==
    LET e == memory[j][call[j].node]
    IN  /\ call[j].kind = "trust" =>
              e = [fingerprint |-> call[j].fingerprint, revoked |-> FALSE]
        /\ call[j].kind = "revoke" => ~Trusted(memory[j], call[j].node)

StoresAgree ==
    /\ Readable => Agrees(file.store)
    /\ \A j \in Op : Saving(j) => Agrees(memory[j]) /\ HasItsChange(j)

Sound ==
    /\ TypeOK
    /\ Requests
    /\ OnlyApprovedIsTrusted

IInv ==
    /\ Sound
    /\ OneWriter
    /\ FileIsOwned
    /\ HasLoaded
    /\ StoresAgree
    /\ RevocationIsSeen
    /\ ApprovalIsSeen
    /\ OneFingerprint
    /\ UnreadableIsTransient
=============================================================================

-------------------------- MODULE TrustStore_proofs --------------------------
(***************************************************************************)
(* Proofs about TrustStore, for any nodes, fingerprints and number of      *)
(* operations: what holds however operations overlap, and what holds in    *)
(* the behaviours in which no two writers overlap.                         *)
(***************************************************************************)
EXTENDS TrustStore, FiniteSetTheorems, TLAPS

(***************************************************************************)
(* The length of a store is a natural number.                              *)
(***************************************************************************)
LEMMA SizeType == ASSUME NEW s PROVE Size(s) \in Nat
<1> DEFINE entries == {n \in Node : s[n] # NoEntry}
           trusted == {n \in Node : s[n] # NoEntry /\ ~s[n].revoked}
<1>1. IsFiniteSet(entries) /\ IsFiniteSet(trusted)
  BY FS_Subset, TrustAssumption
<1>2. /\ Cardinality(Node) \in Nat
      /\ Cardinality(entries) \in Nat /\ Cardinality(trusted) \in Nat
  BY <1>1, FS_CardinalityType, TrustAssumption
<1>3. \A a, b \in Nat : a * b \in Nat
  OBVIOUS
<1>4. (Cardinality(Node) + 1) * Cardinality(entries) \in Nat
  BY <1>2, <1>3
<1> QED
  BY <1>2, <1>4 DEF Size

(***************************************************************************)
(* What the operations do to a store makes a store.                        *)
(***************************************************************************)
LEMMA ChangeType ==
    ASSUME NEW s \in Store, NEW n \in Node
    PROVE  /\ \A fp \in Fingerprint : Approved(s, n, fp) \in Store
           /\ s[n] # NoEntry => Revoked(s, n) \in Store
BY DEF Store, Entry, Approved, Revoked

(***************************************************************************)
(* What the file can be when its writer has written, or has failed.        *)
(***************************************************************************)
LEMMA WrittenFile ==
    ASSUME TypeOK, NEW j \in Op, Write(j) \/ WriteFails(j)
    PROVE  /\ file' \in [state : FileState, store : Store, size : Nat]
           /\ file'.store \in {file.store, NoEntries, memory[j]}
<1>1. file \in [state : FileState, store : Store, size : Nat] /\ memory[j] \in Store
  BY DEF TypeOK
<1>2. Size(memory[j]) \in Nat /\ NoEntries \in Store
  BY SizeType DEF Store, NoEntries
<1>3. /\ Saved(j) \in [state : FileState, store : Store, size : Nat]
      /\ Saved(j).store \in {NoEntries, memory[j]}
  BY <1>1, <1>2 DEF Saved, FileState
<1>4. CASE file' = file \/ file' = Saved(j)
  BY <1>1, <1>3, <1>4
<1>5. ASSUME NEW n \in file.size .. Size(memory[j]) - 1,
             file' = [state |-> "partial", store |-> NoEntries, size |-> n]
      PROVE  /\ file' \in [state : FileState, store : Store, size : Nat]
             /\ file'.store = NoEntries
  <2>1. n \in Nat
    BY <1>1, <1>2
  <2> QED
    BY <1>2, <1>5, <2>1 DEF FileState
<1> QED
  BY <1>4, <1>5 DEF Write, WriteFails

(***************************************************************************)
(* Every step keeps the types, and what a request is.                      *)
(***************************************************************************)
LEMMA TypeStep ==
    ASSUME TypeOK, Requests, [Next]_vars
    PROVE  TypeOK' /\ Requests'
<1> USE DEF TypeOK, Requests, Request, Saving, Writes, Active, Ended, Kind
<1>1. ASSUME NEW j \in Op, NEW n \in Node, NEW fp \in Fingerprint, Call(j, "trust", n, fp)
      PROVE  TypeOK' /\ Requests'
  BY <1>1 DEF Call
<1>2. ASSUME NEW j \in Op, NEW n \in Node, NEW kind \in {"revoke", "query"},
             Call(j, kind, n, NoEntry)
      PROVE  TypeOK' /\ Requests'
  BY <1>2 DEF Call
<1>3. ASSUME NEW j \in Op, LoadFails(j) PROVE TypeOK' /\ Requests'
  BY <1>3 DEF LoadFails
<1>4. ASSUME NEW j \in Op, LoadToTrust(j) PROVE TypeOK' /\ Requests'
  <2>1. /\ pc[j] = "loading"
        /\ call[j].kind = "trust"
        /\ call[j].node \in Node
        /\ call[j].fingerprint \in Fingerprint
        /\ file.store \in Store
    BY <1>4 DEF LoadToTrust
  <2>2. Approved(file.store, call[j].node, call[j].fingerprint) \in Store
    BY <2>1, ChangeType
  <2> QED
    BY <1>4, <2>1, <2>2 DEF LoadToTrust
<1>5. ASSUME NEW j \in Op, LoadToRevoke(j) PROVE TypeOK' /\ Requests'
  <2>1. /\ pc[j] = "loading"
        /\ call[j].kind = "revoke"
        /\ call[j].node \in Node
        /\ file.store \in Store
    BY <1>5 DEF LoadToRevoke
  <2>2. file.store[call[j].node] # NoEntry => Revoked(file.store, call[j].node) \in Store
    BY <2>1, ChangeType
  <2> QED
    BY <1>5, <2>1, <2>2 DEF LoadToRevoke
<1>6. ASSUME NEW j \in Op, LoadToQuery(j) PROVE TypeOK' /\ Requests'
  <2>1. Trusted(file.store, call[j].node) \in BOOLEAN
    BY DEF Trusted
  <2> QED
    BY <1>6, <2>1 DEF LoadToQuery
<1>7. ASSUME NEW j \in Op, Open(j) PROVE TypeOK' /\ Requests'
  BY <1>7 DEF Open, FileState, Store, NoEntries
<1>8. ASSUME NEW j \in Op, Write(j) \/ WriteFails(j) PROVE TypeOK' /\ Requests'
  <2>1. file' \in [state : FileState, store : Store, size : Nat]
    BY <1>8, WrittenFile
  <2>2. /\ pc[j] = "writing"
        /\ pc' = [pc EXCEPT ![j] = "ok"] \/ pc' = [pc EXCEPT ![j] = "ioError"]
        /\ UNCHANGED <<call, memory, answer, before>>
    BY <1>8 DEF Write, WriteFails
  <2> QED
    BY <2>1, <2>2
<1>9. ASSUME NEW j \in Op, IOError(j) PROVE TypeOK' /\ Requests'
  BY <1>9 DEF IOError
<1>10. CASE Crash
  BY <1>10 DEF Crash
<1>11. CASE UNCHANGED vars
  BY <1>11 DEF vars
<1> QED
  BY <1>1, <1>2, <1>3, <1>4, <1>5, <1>6, <1>7, <1>8, <1>9, <1>10, <1>11 DEF Next, Step

(***************************************************************************)
(* What was called, and what has succeeded, stays so.                      *)
(***************************************************************************)
LEMMA Past ==
    ASSUME TypeOK, [Next]_vars
    PROVE  \A j \in Op :
              /\ pc[j] # "idle" => /\ pc'[j] # "idle"
                                   /\ call'[j] = call[j]
                                   /\ before'[j] = before[j]
              /\ pc[j] = "idle" => /\ pc'[j] \in {"idle", "loading"}
                                   /\ before'[j] \subseteq before[j] \cup {k \in Op : pc[k] = "ok"}
              /\ pc[j] = "ok" => pc'[j] = "ok" /\ answer'[j] = answer[j]
<1> SUFFICES ASSUME NEW j \in Op
             PROVE  /\ pc[j] # "idle" => /\ pc'[j] # "idle"
                                         /\ call'[j] = call[j]
                                         /\ before'[j] = before[j]
                    /\ pc[j] = "idle" =>
                          /\ pc'[j] \in {"idle", "loading"}
                          /\ before'[j] \subseteq before[j] \cup {k \in Op : pc[k] = "ok"}
                    /\ pc[j] = "ok" => pc'[j] = "ok" /\ answer'[j] = answer[j]
  OBVIOUS
<1> USE DEF TypeOK, Active, Ended
<1>1. ASSUME NEW k \in Op, NEW kind, NEW n, NEW fp, Call(k, kind, n, fp)
      PROVE  /\ pc' = [pc EXCEPT ![k] = "loading"] /\ pc[k] = "idle"
             /\ \A i \in Op \ {k} : call'[i] = call[i] /\ before'[i] = before[i]
             /\ before'[k] = {i \in Op : pc[i] = "ok"}
             /\ answer' = answer
  BY <1>1 DEF Call
<1>2. ASSUME NEW k \in Op, Step(k)
      PROVE  /\ call' = call /\ before' = before
             /\ \A i \in Op \ {k} : pc'[i] = pc[i] /\ answer'[i] = answer[i]
             /\ pc[k] \in Active /\ pc'[k] # "idle"
  BY <1>2 DEF Step, LoadFails, LoadToTrust, LoadToRevoke, LoadToQuery, Open, IOError,
              Write, WriteFails
<1>3. CASE Crash
  BY <1>3 DEF Crash
<1>4. CASE UNCHANGED vars
  BY <1>4 DEF vars
<1>5. ASSUME NEW k \in Op, NEW kind, NEW n, NEW fp, Call(k, kind, n, fp)
      PROVE  /\ pc[j] # "idle" => /\ pc'[j] # "idle"
                                  /\ call'[j] = call[j]
                                  /\ before'[j] = before[j]
             /\ pc[j] = "idle" =>
                   /\ pc'[j] \in {"idle", "loading"}
                   /\ before'[j] \subseteq before[j] \cup {i \in Op : pc[i] = "ok"}
             /\ pc[j] = "ok" => pc'[j] = "ok" /\ answer'[j] = answer[j]
  BY <1>1, <1>5
<1>6. ASSUME NEW k \in Op, Step(k)
      PROVE  /\ pc[j] # "idle" => /\ pc'[j] # "idle"
                                  /\ call'[j] = call[j]
                                  /\ before'[j] = before[j]
             /\ pc[j] = "idle" =>
                   /\ pc'[j] \in {"idle", "loading"}
                   /\ before'[j] \subseteq before[j] \cup {i \in Op : pc[i] = "ok"}
             /\ pc[j] = "ok" => pc'[j] = "ok" /\ answer'[j] = answer[j]
  BY <1>2, <1>6
<1> QED
  BY <1>3, <1>4, <1>5, <1>6 DEF Next

(***************************************************************************)
(* Steps in which no writer succeeds.                                      *)
(***************************************************************************)
NoWriterSucceeds ==
    \A j \in Op : pc[j] # "ok" /\ pc'[j] = "ok" => call[j].kind = "query"

(***************************************************************************)
(* A step in which no writer succeeds leaves what agrees in agreement.     *)
(***************************************************************************)
LEMMA AgreesStays ==
    ASSUME TypeOK, [Next]_vars, NoWriterSucceeds, NEW s, Agrees(s)
    PROVE  Agrees(s)'
<1> SUFFICES ASSUME NEW j \in Op, NEW n \in Node
             PROVE  /\ Succeeded(j, "revoke", n)' =>
                          \/ ~Trusted(s, n)
                          \/ \E t \in Op : Called(t, "trust", n)' /\ t \notin before'[j]
                    /\ Succeeded(j, "trust", n)' =>
                          /\ s[n] # NoEntry /\ s[n].fingerprint = call'[j].fingerprint
                          /\ \/ Trusted(s, n)
                             \/ \E r \in Op : Called(r, "revoke", n)'
  BY DEF Agrees, Trusted
<1>1. \A t \in Op, kind \in Kind : Called(t, kind, n) => Called(t, kind, n)'
  BY Past DEF Called
<1>2. \A kind \in {"trust", "revoke"} : Succeeded(j, kind, n)' => Succeeded(j, kind, n)
  BY Past DEF Succeeded, NoWriterSucceeds, TypeOK
<1>3. Succeeded(j, "revoke", n) \/ Succeeded(j, "trust", n) =>
         before'[j] = before[j] /\ call'[j] = call[j]
  BY Past DEF Succeeded
<1> QED
  BY <1>1, <1>2, <1>3 DEF Agrees, Kind

(***************************************************************************)
(* An operation succeeds by its query or its write.                        *)
(***************************************************************************)
LEMMA NewSuccess ==
    ASSUME TypeOK, [Next]_vars, NEW j \in Op, pc[j] # "ok", pc'[j] = "ok"
    PROVE  LoadToQuery(j) \/ Write(j)
<1> USE DEF TypeOK, Active, Ended
<1>1. ASSUME NEW k \in Op, NEW kind, NEW n, NEW fp, Call(k, kind, n, fp) PROVE FALSE
  BY <1>1 DEF Call
<1>2. ASSUME NEW k \in Op, \/ LoadFails(k) \/ LoadToTrust(k) \/ LoadToRevoke(k)
                           \/ Open(k) \/ IOError(k) \/ WriteFails(k)
      PROVE  FALSE
  BY <1>2 DEF LoadFails, LoadToTrust, LoadToRevoke, Open, IOError, WriteFails
<1>3. ASSUME NEW k \in Op, LoadToQuery(k) \/ Write(k) PROVE k = j
  BY <1>3 DEF LoadToQuery, Write
<1>4. ~Crash /\ ~UNCHANGED vars
  BY DEF Crash, vars
<1> QED
  BY <1>1, <1>2, <1>3, <1>4 DEF Next, Step

(***************************************************************************)
(* A step makes at most one more writer, and only when there is none.      *)
(***************************************************************************)
LEMMA WriterStep ==
    ASSUME SerialWriters, TypeOK, OneWriter, [Next]_vars
    PROVE  OneWriter'
<1> USE DEF TypeOK, OneWriter, Writes, Active, Ended
<1>1. ASSUME NEW j \in Op, NEW kind \in Kind, NEW n, NEW fp, Call(j, kind, n, fp)
      PROVE  OneWriter'
  BY <1>1 DEF Call, Kind
<1>2. ASSUME NEW j \in Op, Step(j)
      PROVE  /\ call' = call
             /\ \A i \in Op \ {j} : pc'[i] = pc[i]
             /\ pc[j] \in Active
    BY <1>2 DEF Step, LoadFails, LoadToTrust, LoadToRevoke, LoadToQuery, Open, IOError,
                Write, WriteFails
<1>3. ASSUME NEW j \in Op, Step(j) PROVE OneWriter'
  BY <1>2, <1>3
<1>4. CASE Crash
  BY <1>4 DEF Crash
<1>5. CASE UNCHANGED vars
  BY <1>5 DEF vars
<1> QED
  BY <1>1, <1>3, <1>4, <1>5 DEF Next, Kind

(***************************************************************************)
(* The file is empty while its writer writes; when it has written, or has  *)
(* failed and the file can be read, the file has what it wrote.            *)
(***************************************************************************)
LEMMA FileStep ==
    ASSUME TypeOK, Requests, OneWriter, FileIsOwned, UnreadableIsTransient, [Next]_vars
    PROVE  /\ FileIsOwned'
           /\ UnreadableIsTransient'
           /\ \A j \in Op : Write(j) => file'.state = "json" /\ file'.store = memory[j]
           /\ \A j \in Op : WriteFails(j) /\ Readable' => file'.store = memory[j]
<1> USE DEF TypeOK, FileIsOwned, UnreadableIsTransient, Readable, FileState, Active, Ended
<1>0. \A j \in Op : pc[j] # "idle" => pc'[j] # "idle" /\ call'[j] = call[j]
  BY Past
<1>1. ASSUME NEW j \in Op, NEW kind, NEW n, NEW fp, Call(j, kind, n, fp)
      PROVE  FileIsOwned' /\ UnreadableIsTransient'
  BY <1>0, <1>1 DEF Call
<1>2. ASSUME NEW j \in Op, \/ LoadFails(j) \/ LoadToTrust(j) \/ LoadToRevoke(j)
                           \/ LoadToQuery(j) \/ IOError(j)
      PROVE  /\ UNCHANGED <<file, call>>
             /\ \A i \in Op : pc'[i] = "writing" <=> pc[i] = "writing"
             /\ \A i \in Op : pc[i] \in {"crashed", "ioError"} => pc'[i] = pc[i]
  BY <1>2 DEF LoadFails, LoadToTrust, LoadToRevoke, LoadToQuery, IOError
<1>3. ASSUME NEW j \in Op, \/ LoadFails(j) \/ LoadToTrust(j) \/ LoadToRevoke(j)
                           \/ LoadToQuery(j) \/ IOError(j)
      PROVE  FileIsOwned' /\ UnreadableIsTransient'
  BY <1>2, <1>3
<1>4. ASSUME NEW j \in Op, Open(j) PROVE FileIsOwned' /\ UnreadableIsTransient'
  BY <1>4 DEF Open, Requests, Saving, Writes
<1>5. ASSUME NEW j \in Op, pc[j] = "writing"
      PROVE  Saved(j) = [state |-> "json", store |-> memory[j], size |-> Size(memory[j])]
  <2>1. file.size = 0 /\ Size(memory[j]) \in Nat
    BY <1>5, SizeType
  <2> QED
    BY <2>1 DEF Saved
<1>6. ASSUME NEW j \in Op, Write(j) \/ WriteFails(j)
      PROVE  /\ pc[j] = "writing" /\ call[j].kind \in {"trust", "revoke"}
             /\ UNCHANGED call
             /\ \A i \in Op : pc'[i] # "writing"
  <2>1. \A i \in Op : pc[i] = "writing" => i = j
    BY <1>6 DEF Write, WriteFails, Requests, Saving, OneWriter
  <2> QED
    BY <1>6, <2>1 DEF Write, WriteFails, Requests, Saving, Writes
<1>7. ASSUME NEW j \in Op, Write(j)
      PROVE  /\ FileIsOwned' /\ UnreadableIsTransient'
             /\ file'.state = "json" /\ file'.store = memory[j]
  <2>1. file'.state = "json" /\ file'.store = memory[j]
    BY <1>5, <1>7 DEF Write
  <2> QED
    BY <1>6, <1>7, <2>1
<1>8. ASSUME NEW j \in Op, WriteFails(j)
      PROVE  /\ FileIsOwned' /\ UnreadableIsTransient'
             /\ Readable' => file'.store = memory[j]
  <2>1. pc'[j] = "ioError"
    BY <1>8 DEF WriteFails
  <2>2. /\ file'.state \in {"json", "partial"}
        /\ file'.state = "json" => file'.store = memory[j]
        /\ file'.state = "partial" => file'.store = NoEntries
    BY <1>5, <1>6, <1>8 DEF WriteFails
  <2> QED
    BY <1>6, <1>8, <2>1, <2>2
<1>9. ASSUME Crash PROVE FileIsOwned' /\ UnreadableIsTransient'
  BY <1>9 DEF Crash
<1>10. ASSUME UNCHANGED vars PROVE FileIsOwned' /\ UnreadableIsTransient'
  BY <1>10 DEF vars
<1> QED
  BY <1>1, <1>3, <1>4, <1>7, <1>8, <1>9, <1>10 DEF Next, Step

(***************************************************************************)
(* What a writer has in memory has its own change and agrees with the past *)
(* that the file agreed with.                                              *)
(***************************************************************************)
LEMMA TrustAgrees ==
    ASSUME TypeOK, Requests, NEW s \in Store, Agrees(s), NEW j \in Op,
           pc[j] = "loading", call[j].kind = "trust",
           ~KeyChanged(s, call[j].node, call[j].fingerprint)
    PROVE  Agrees(Approved(s, call[j].node, call[j].fingerprint))
<1> DEFINE m == call[j].node
           a == Approved(s, m, call[j].fingerprint)
<1>1. m \in Node /\ call[j].fingerprint \in Fingerprint /\ Called(j, "trust", m)
  BY DEF TypeOK, Requests, Request, Called
<1>2. a[m] = [fingerprint |-> call[j].fingerprint, revoked |-> FALSE]
  BY <1>1 DEF Approved, Store
<1>3. a[m] # NoEntry
  <2>1. [fingerprint |-> call[j].fingerprint, revoked |-> FALSE] \in Entry
    BY <1>1 DEF Entry
  <2> QED
    BY <1>2, <2>1, TrustAssumption
<1>4. \A n \in Node \ {m} : a[n] = s[n]
  BY <1>1 DEF Approved, Store
<1>5. \A r \in Op : j \notin before[r]
  BY DEF Requests
<1> SUFFICES ASSUME NEW i \in Op, NEW n \in Node
             PROVE  /\ Succeeded(i, "revoke", n) =>
                          \/ ~Trusted(a, n)
                          \/ \E t \in Op : Called(t, "trust", n) /\ t \notin before[i]
                    /\ Succeeded(i, "trust", n) =>
                          /\ a[n] # NoEntry /\ a[n].fingerprint = call[i].fingerprint
                          /\ Trusted(a, n) \/ \E r \in Op : Called(r, "revoke", n)
  BY DEF Agrees
<1>6. CASE n = m
  BY <1>1, <1>2, <1>3, <1>5, <1>6 DEF Agrees, Trusted, KeyChanged
<1>7. CASE n # m
  BY <1>4, <1>7 DEF Agrees, Trusted
<1> QED
  BY <1>6, <1>7

(***************************************************************************)
(* The same for a revocation.                                              *)
(***************************************************************************)
LEMMA RevokeAgrees ==
    ASSUME TypeOK, Requests, NEW s \in Store, Agrees(s), NEW j \in Op,
           pc[j] = "loading", call[j].kind = "revoke", s[call[j].node] # NoEntry
    PROVE  Agrees(Revoked(s, call[j].node)) /\ ~Trusted(Revoked(s, call[j].node), call[j].node)
<1> DEFINE m == call[j].node
           a == Revoked(s, m)
<1>1. m \in Node /\ Called(j, "revoke", m)
  BY DEF TypeOK, Requests, Request, Called
<1>2. a[m] # NoEntry /\ a[m].revoked /\ a[m].fingerprint = s[m].fingerprint
  BY <1>1, TrustAssumption DEF Revoked, Store, Entry
<1>3. \A n \in Node \ {m} : a[n] = s[n]
  BY <1>1 DEF Revoked, Store
<1>4. ~Trusted(a, m)
  BY <1>2 DEF Trusted
<1> SUFFICES ASSUME NEW i \in Op, NEW n \in Node
             PROVE  /\ Succeeded(i, "revoke", n) =>
                          \/ ~Trusted(a, n)
                          \/ \E t \in Op : Called(t, "trust", n) /\ t \notin before[i]
                    /\ Succeeded(i, "trust", n) =>
                          /\ a[n] # NoEntry /\ a[n].fingerprint = call[i].fingerprint
                          /\ Trusted(a, n) \/ \E r \in Op : Called(r, "revoke", n)
  BY <1>4 DEF Agrees
<1>5. CASE n = m
  BY <1>1, <1>2, <1>4, <1>5 DEF Agrees, Trusted
<1>6. CASE n # m
  BY <1>3, <1>6 DEF Agrees, Trusted
<1> QED
  BY <1>5, <1>6

(***************************************************************************)
(* A step after which no more operations save, and the file, when it can   *)
(* be read, has what it had or what a writer has in memory.                *)
(***************************************************************************)
LEMMA QuietAgrees ==
    ASSUME TypeOK, StoresAgree, [Next]_vars, NoWriterSucceeds,
           Readable' => \/ UNCHANGED file
                        \/ \E j \in Op : Saving(j) /\ file'.store = memory[j],
           UNCHANGED memory,
           \A j \in Op : Saving(j)' => Saving(j)
    PROVE  StoresAgree'
<1>1. \A s : Agrees(s) => Agrees(s)'
  BY AgreesStays
<1>2. \A j \in Op : Saving(j) => call'[j] = call[j]
  BY Past DEF Saving
<1>3. Readable' => Agrees(file.store)'
  BY <1>1 DEF StoresAgree, Readable
<1>4. ASSUME NEW j \in Op, Saving(j)' PROVE Agrees(memory[j])' /\ HasItsChange(j)'
  BY <1>1, <1>2, <1>4 DEF StoresAgree, HasItsChange, Trusted
<1> QED
  BY <1>3, <1>4 DEF StoresAgree

(***************************************************************************)
(* A writer has loaded and changed the store: it agrees as the file does.  *)
(***************************************************************************)
LEMMA LoadAgrees ==
    ASSUME TypeOK, StoresAgree, [Next]_vars, NoWriterSucceeds,
           UNCHANGED <<file, call>>, Readable,
           NEW j \in Op, NEW s, memory' = [memory EXCEPT ![j] = s],
           Agrees(s), pc' = [pc EXCEPT ![j] = "opening"], HasItsChange(j)'
    PROVE  StoresAgree'
<1>1. \A r : Agrees(r) => Agrees(r)'
  BY AgreesStays
<1>2. Readable' => Agrees(file.store)'
  BY <1>1 DEF StoresAgree, Readable
<1>3. memory'[j] = s /\ \A i \in Op \ {j} : memory'[i] = memory[i] /\ pc'[i] = pc[i]
  BY DEF TypeOK
<1>4. ASSUME NEW i \in Op, Saving(i)', i # j PROVE Agrees(memory[i])' /\ HasItsChange(i)'
  BY <1>1, <1>3, <1>4 DEF StoresAgree, HasItsChange, Trusted, Saving
<1>5. Agrees(memory[j])'
  BY <1>1, <1>3
<1> QED
  BY <1>2, <1>4, <1>5 DEF StoresAgree

(***************************************************************************)
(* A writer has written: the file agrees with it too.                      *)
(***************************************************************************)
LEMMA WriteAgrees ==
    ASSUME TypeOK, Requests, OneWriter, StoresAgree, [Next]_vars, NEW j \in Op, Write(j),
           file'.store = memory[j]
    PROVE  StoresAgree'
<1>1. /\ pc[j] = "writing"
      /\ pc' = [pc EXCEPT ![j] = "ok"]
      /\ UNCHANGED <<call, before, memory>>
      /\ Agrees(memory[j]) /\ HasItsChange(j)
  BY DEF Write, StoresAgree, Saving
<1>2. \A i \in Op : ~Saving(i)'
  BY <1>1 DEF Requests, OneWriter, Saving, TypeOK
<1>3. \A t \in Op, n \in Node, kind \in Kind : Called(t, kind, n) => Called(t, kind, n)'
  BY Past DEF Called
<1>4. ASSUME NEW i \in Op, NEW n \in Node, i # j
      PROVE  \A kind \in Kind : Succeeded(i, kind, n)' <=> Succeeded(i, kind, n)
  BY <1>1, <1>4 DEF Succeeded, TypeOK
<1>5. ASSUME NEW n \in Node, Succeeded(j, "revoke", n)' PROVE ~Trusted(memory[j], n)
  BY <1>1, <1>5 DEF Succeeded, HasItsChange
<1>6. ASSUME NEW n \in Node, Succeeded(j, "trust", n)'
      PROVE  /\ memory[j][n] # NoEntry
             /\ memory[j][n].fingerprint = call[j].fingerprint
             /\ Trusted(memory[j], n)
  <2>1. memory[j][n] = [fingerprint |-> call[j].fingerprint, revoked |-> FALSE]
    BY <1>1, <1>6 DEF Succeeded, HasItsChange
  <2>2. call[j].fingerprint \in Fingerprint
    BY <1>1, <1>6 DEF Succeeded, Requests
  <2>3. [fingerprint |-> call[j].fingerprint, revoked |-> FALSE] \in Entry
    BY <2>2 DEF Entry
  <2>4. memory[j][n] # NoEntry
    BY <2>1, <2>3, TrustAssumption
  <2> QED
    BY <2>1, <2>4 DEF Trusted
<1>7. ASSUME NEW i \in Op, NEW n \in Node
      PROVE  /\ Succeeded(i, "revoke", n)' =>
                   \/ ~Trusted(memory[j], n)
                   \/ \E t \in Op : Called(t, "trust", n)' /\ t \notin before'[i]
             /\ Succeeded(i, "trust", n)' =>
                   /\ memory[j][n] # NoEntry
                   /\ memory[j][n].fingerprint = call'[i].fingerprint
                   /\ \/ Trusted(memory[j], n)
                      \/ \E r \in Op : Called(r, "revoke", n)'
  <2>1. CASE i = j
    BY <1>1, <1>5, <1>6, <2>1
  <2>2. CASE i # j
    BY <1>1, <1>3, <1>4, <2>2 DEF Agrees, Kind
  <2> QED
    BY <2>1, <2>2
<1>8. Agrees(file.store)'
  BY <1>7 DEF Agrees, Trusted
<1> QED
  BY <1>2, <1>8 DEF StoresAgree

(***************************************************************************)
(* Every step keeps the stores in agreement with the past.                 *)
(***************************************************************************)
LEMMA StoreStep ==
    ASSUME IInv, [Next]_vars
    PROVE  StoresAgree'
<1> USE DEF TypeOK, Active, Ended
<1>1. TypeOK /\ Requests /\ OneWriter /\ StoresAgree
  BY DEF IInv, Sound
<1>2. \A j \in Op : Write(j) => file'.store = memory[j]
  BY FileStep DEF IInv, Sound
<1>3. ASSUME NEW j \in Op, NEW kind, NEW n, NEW fp, Call(j, kind, n, fp)
      PROVE  StoresAgree'
  <2>1. NoWriterSucceeds /\ \A i \in Op : Saving(i)' => Saving(i)
    BY <1>1, <1>3 DEF Call, NoWriterSucceeds, Saving
  <2> QED
    BY <1>1, <1>3, <2>1, QuietAgrees DEF Call
<1>4. ASSUME NEW j \in Op, LoadFails(j) \/ LoadToQuery(j) \/ Open(j) \/ IOError(j)
      PROVE  StoresAgree'
  <2>1. NoWriterSucceeds /\ \A i \in Op : Saving(i)' => Saving(i)
    BY <1>1, <1>4 DEF LoadFails, LoadToQuery, Open, IOError, NoWriterSucceeds, Saving
  <2>2. UNCHANGED memory /\ (Readable' => UNCHANGED file)
    BY <1>4 DEF LoadFails, LoadToQuery, Open, IOError, Readable
  <2> QED
    BY <1>1, <2>1, <2>2, QuietAgrees
<1>5. ASSUME NEW j \in Op, LoadToTrust(j) PROVE StoresAgree'
  <2>1. NoWriterSucceeds
    BY <1>1, <1>5 DEF LoadToTrust, NoWriterSucceeds
  <2>2. CASE KeyChanged(file.store, call[j].node, call[j].fingerprint)
    <3>1. \A i \in Op : Saving(i)' => Saving(i)
      BY <1>1, <1>5, <2>2 DEF LoadToTrust, Saving
    <3> QED
      BY <1>1, <1>5, <2>1, <2>2, <3>1, QuietAgrees DEF LoadToTrust
  <2>3. CASE ~KeyChanged(file.store, call[j].node, call[j].fingerprint)
    <3> DEFINE s == Approved(file.store, call[j].node, call[j].fingerprint)
    <3>1. /\ pc[j] = "loading" /\ call[j].kind = "trust" /\ Readable
          /\ pc' = [pc EXCEPT ![j] = "opening"]
          /\ memory' = [memory EXCEPT ![j] = s]
          /\ UNCHANGED <<file, call>>
      BY <1>5, <2>3 DEF LoadToTrust
    <3>2. file.store \in Store /\ Agrees(file.store) /\ call[j].node \in Node
      BY <1>1, <3>1 DEF StoresAgree, Requests, Request
    <3>3. Agrees(s)
      BY <1>1, <2>3, <3>1, <3>2, TrustAgrees
    <3>4. memory'[j] = s
             /\ s[call[j].node] = [fingerprint |-> call[j].fingerprint, revoked |-> FALSE]
      BY <1>1, <3>1, <3>2 DEF Approved, Store
    <3>5. HasItsChange(j)'
      BY <3>1, <3>4 DEF HasItsChange
    <3> HIDE DEF s
    <3> QED
      BY <1>1, <2>1, <3>1, <3>3, <3>5, LoadAgrees
  <2> QED
    BY <2>2, <2>3
<1>6. ASSUME NEW j \in Op, LoadToRevoke(j) PROVE StoresAgree'
  <2>1. NoWriterSucceeds
    BY <1>1, <1>6 DEF LoadToRevoke, NoWriterSucceeds
  <2>2. CASE file.store[call[j].node] = NoEntry
    <3>1. \A i \in Op : Saving(i)' => Saving(i)
      BY <1>1, <1>6, <2>2 DEF LoadToRevoke, Saving
    <3> QED
      BY <1>1, <1>6, <2>1, <2>2, <3>1, QuietAgrees DEF LoadToRevoke
  <2>3. CASE file.store[call[j].node] # NoEntry
    <3> DEFINE s == Revoked(file.store, call[j].node)
    <3>1. /\ pc[j] = "loading" /\ call[j].kind = "revoke" /\ Readable
          /\ pc' = [pc EXCEPT ![j] = "opening"]
          /\ memory' = [memory EXCEPT ![j] = s]
          /\ UNCHANGED <<file, call>>
      BY <1>6, <2>3 DEF LoadToRevoke
    <3>2. file.store \in Store /\ Agrees(file.store)
      BY <1>1, <3>1 DEF StoresAgree
    <3>3. Agrees(s) /\ ~Trusted(s, call[j].node)
      BY <1>1, <2>3, <3>1, <3>2, RevokeAgrees
    <3>4. memory'[j] = s
      BY <1>1, <3>1
    <3> HIDE DEF s
    <3>5. HasItsChange(j)'
      BY <3>1, <3>3, <3>4 DEF HasItsChange, Trusted
    <3> QED
      BY <1>1, <2>1, <3>1, <3>3, <3>5, LoadAgrees
  <2> QED
    BY <2>2, <2>3
<1>7. ASSUME NEW j \in Op, Write(j) PROVE StoresAgree'
  BY <1>1, <1>2, <1>7, WriteAgrees
<1>8. ASSUME NEW j \in Op, WriteFails(j) PROVE StoresAgree'
  <2>1. NoWriterSucceeds /\ \A i \in Op : Saving(i)' => Saving(i)
    BY <1>1, <1>8 DEF WriteFails, NoWriterSucceeds, Saving
  <2>2. Saving(j) /\ UNCHANGED memory
    BY <1>8 DEF WriteFails, Saving
  <2>3. Readable' => file'.store = memory[j]
    BY <1>8, FileStep DEF IInv, Sound
  <2> QED
    BY <1>1, <2>1, <2>2, <2>3, QuietAgrees
<1>9. CASE Crash
  <2>1. NoWriterSucceeds /\ \A i \in Op : Saving(i)' => Saving(i)
    BY <1>1, <1>9 DEF Crash, NoWriterSucceeds, Saving
  <2> QED
    BY <1>1, <1>9, <2>1, QuietAgrees DEF Crash
<1>10. CASE UNCHANGED vars
  <2>1. NoWriterSucceeds /\ \A i \in Op : Saving(i)' => Saving(i)
    BY <1>1, <1>10 DEF vars, NoWriterSucceeds, Saving
  <2> QED
    BY <1>1, <1>10, <2>1, QuietAgrees DEF vars
<1> QED
  BY <1>3, <1>4, <1>5, <1>6, <1>7, <1>8, <1>9, <1>10 DEF Next, Step

(***************************************************************************)
(* What the file agrees with, the queries answer; what the writers agree   *)
(* with, their successors have.                                            *)
(***************************************************************************)
LEMMA RevocationStep ==
    ASSUME IInv, [Next]_vars
    PROVE  RevocationIsSeen'
<1> SUFFICES ASSUME NEW q \in Op, NEW r \in Op, NEW n \in Node,
                    Succeeded(q, "query", n)', answer'[q],
                    Succeeded(r, "revoke", n)', r \in before'[q]
             PROVE  \E t \in Op : Called(t, "trust", n)' /\ t \notin before'[r]
  BY DEF RevocationIsSeen
<1>1. TypeOK /\ Requests /\ StoresAgree /\ RevocationIsSeen
  BY DEF IInv, Sound
<1>2. \A t \in Op : Called(t, "trust", n) => Called(t, "trust", n)'
  BY <1>1, Past DEF Called
<1>3. pc[q] # "idle" /\ call'[q] = call[q] /\ before'[q] = before[q]
  BY <1>1, Past DEF Succeeded
<1>4. pc[r] = "ok" /\ call'[r] = call[r] /\ before'[r] = before[r]
  BY <1>1, <1>3, Past DEF Requests
<1>5. CASE pc[q] = "ok"
  <2>1. answer'[q] = answer[q]
    BY <1>1, <1>5, Past
  <2> QED
    BY <1>1, <1>2, <1>3, <1>4, <1>5, <2>1 DEF RevocationIsSeen, Succeeded
<1>6. CASE pc[q] # "ok"
  <2>1. LoadToQuery(q)
    BY <1>1, <1>3, <1>6, NewSuccess DEF Succeeded, Write, Requests, Saving, Writes
  <2>2. Readable /\ Trusted(file.store, n)
    BY <1>1, <1>3, <2>1 DEF LoadToQuery, Succeeded, TypeOK
  <2> QED
    BY <1>1, <1>2, <1>4, <2>2 DEF StoresAgree, Agrees, Succeeded
<1> QED
  BY <1>5, <1>6

(***************************************************************************)
(* The same for approvals.                                                 *)
(***************************************************************************)
LEMMA ApprovalStep ==
    ASSUME IInv, [Next]_vars
    PROVE  ApprovalIsSeen'
<1> SUFFICES ASSUME NEW q \in Op, NEW t \in Op, NEW n \in Node,
                    Succeeded(q, "query", n)', ~answer'[q],
                    Succeeded(t, "trust", n)', t \in before'[q]
             PROVE  \E r \in Op : Called(r, "revoke", n)'
  BY DEF ApprovalIsSeen
<1>1. TypeOK /\ Requests /\ StoresAgree /\ ApprovalIsSeen
  BY DEF IInv, Sound
<1>2. \A r \in Op : Called(r, "revoke", n) => Called(r, "revoke", n)'
  BY <1>1, Past DEF Called
<1>3. pc[q] # "idle" /\ call'[q] = call[q] /\ before'[q] = before[q]
  BY <1>1, Past DEF Succeeded
<1>4. pc[t] = "ok" /\ call'[t] = call[t]
  BY <1>1, <1>3, Past DEF Requests
<1>5. CASE pc[q] = "ok"
  <2>1. answer'[q] = answer[q]
    BY <1>1, <1>5, Past
  <2> QED
    BY <1>1, <1>2, <1>3, <1>4, <1>5, <2>1 DEF ApprovalIsSeen, Succeeded
<1>6. CASE pc[q] # "ok"
  <2>1. LoadToQuery(q)
    BY <1>1, <1>3, <1>6, NewSuccess DEF Succeeded, Write, Requests, Saving, Writes
  <2>2. Readable /\ ~Trusted(file.store, n)
    BY <1>1, <1>3, <2>1 DEF LoadToQuery, Succeeded, TypeOK
  <2> QED
    BY <1>1, <1>2, <1>4, <2>2 DEF StoresAgree, Agrees, Succeeded
<1> QED
  BY <1>5, <1>6

(***************************************************************************)
(* A writer that succeeds has the fingerprint of those before it.          *)
(***************************************************************************)
LEMMA FingerprintStep ==
    ASSUME IInv, [Next]_vars
    PROVE  OneFingerprint'
<1>1. TypeOK /\ Requests /\ StoresAgree /\ OneFingerprint
  BY DEF IInv, Sound
<1>2. ASSUME NEW u \in Op, NEW n \in Node, Succeeded(u, "trust", n)'
      PROVE  /\ call'[u] = call[u] /\ call[u].kind = "trust" /\ call[u].node = n
             /\ pc[u] = "ok" \/ Write(u)
  BY <1>1, <1>2, Past, NewSuccess DEF Succeeded, LoadToQuery
<1>3. ASSUME NEW t \in Op, NEW u \in Op, NEW n \in Node, Write(u), pc[t] = "ok",
             Succeeded(t, "trust", n)', Succeeded(u, "trust", n)'
      PROVE  call[t].fingerprint = call[u].fingerprint
  <2>1. Agrees(memory[u]) /\ HasItsChange(u)
    BY <1>1, <1>3 DEF StoresAgree, Saving, Write
  <2>2. memory[u][n].fingerprint = call[u].fingerprint
    BY <1>2, <1>3, <2>1 DEF HasItsChange
  <2>3. memory[u][n].fingerprint = call[t].fingerprint
    BY <1>2, <1>3, <2>1 DEF Agrees, Succeeded
  <2> QED
    BY <2>2, <2>3
<1> SUFFICES ASSUME NEW t \in Op, NEW u \in Op, NEW n \in Node,
                    Succeeded(t, "trust", n)', Succeeded(u, "trust", n)'
             PROVE  call[t].fingerprint = call[u].fingerprint
  BY <1>2 DEF OneFingerprint
<1>4. CASE pc[t] = "ok" /\ pc[u] = "ok"
  BY <1>1, <1>2, <1>4 DEF OneFingerprint, Succeeded
<1>5. CASE Write(t) /\ Write(u)
  <2>1. t = u
    BY <1>1, <1>5 DEF IInv, OneWriter, Requests, Saving, Write
  <2> QED
    BY <2>1
<1>6. CASE pc[t] = "ok" /\ Write(u)
  BY <1>3, <1>6
<1>7. CASE Write(t) /\ pc[u] = "ok"
  BY <1>3, <1>7
<1> QED
  BY <1>2, <1>4, <1>5, <1>6, <1>7

(***************************************************************************)
(* What was approved stays approved.                                       *)
(***************************************************************************)
LEMMA ApprovedStays ==
    ASSUME TypeOK, [Next]_vars, NEW n \in Node, NEW fp, IsApproved(n, fp)
    PROVE  IsApproved(n, fp)'
BY Past DEF IsApproved, Called

(***************************************************************************)
(* So do the entries of a store.                                           *)
(***************************************************************************)
LEMMA EntriesStay ==
    ASSUME TypeOK, [Next]_vars, NEW s, EntriesAreApproved(s)
    PROVE  EntriesAreApproved(s)'
BY ApprovedStays DEF EntriesAreApproved

(***************************************************************************)
(* A change makes no entry that was not approved.                          *)
(***************************************************************************)
LEMMA ChangeIsApproved ==
    ASSUME TypeOK, Requests, NEW j \in Op, pc[j] # "idle",
           NEW s \in Store, EntriesAreApproved(s)
    PROVE  LET n == call[j].node IN
           /\ call[j].kind = "trust" =>
                 EntriesAreApproved(Approved(s, n, call[j].fingerprint))
           /\ s[n] # NoEntry => EntriesAreApproved(Revoked(s, n))
<1> DEFINE m == call[j].node
<1>1. m \in Node
  BY DEF Requests, Request
<1>2. ASSUME call[j].kind = "trust"
      PROVE  EntriesAreApproved(Approved(s, m, call[j].fingerprint))
  <2> DEFINE a == Approved(s, m, call[j].fingerprint)
  <2>1. a[m].fingerprint = call[j].fingerprint /\ \A n \in Node \ {m} : a[n] = s[n]
    BY <1>1 DEF Approved, Store
  <2>2. IsApproved(m, a[m].fingerprint)
    BY <1>2, <2>1 DEF IsApproved, Called
  <2> QED
    BY <2>1, <2>2 DEF EntriesAreApproved
<1>3. ASSUME s[m] # NoEntry PROVE EntriesAreApproved(Revoked(s, m))
  <2> DEFINE a == Revoked(s, m)
  <2>1. a[m].fingerprint = s[m].fingerprint /\ \A n \in Node \ {m} : a[n] = s[n]
    BY <1>1, <1>3 DEF Revoked, Store, Entry
  <2> QED
    BY <1>1, <1>3, <2>1 DEF EntriesAreApproved
<1> QED
  BY <1>2, <1>3

(***************************************************************************)
(* However writers overlap, every store is made of approvals.              *)
(***************************************************************************)
LEMMA SoundStep == Sound /\ [Next]_vars => Sound'
<1> SUFFICES ASSUME Sound, [Next]_vars PROVE Sound'
  OBVIOUS
<1>1. TypeOK /\ Requests /\ OnlyApprovedIsTrusted
  BY DEF Sound
<1>2. TypeOK' /\ Requests'
  BY <1>1, TypeStep
<1>3. \A s : EntriesAreApproved(s) => EntriesAreApproved(s)'
  BY <1>1, EntriesStay
<1>4. EntriesAreApproved(NoEntries)
  BY DEF EntriesAreApproved, NoEntries
<1>5. file.store \in Store /\ \A j \in Op : memory[j] \in Store
  BY <1>1 DEF TypeOK
<1>6. EntriesAreApproved(file.store) /\ \A j \in Op : EntriesAreApproved(memory[j])
  BY <1>1 DEF OnlyApprovedIsTrusted
<1>7. file'.store \in {file.store, NoEntries} \cup {memory[j] : j \in Op}
  <2>1. ASSUME NEW j \in Op, Write(j) \/ WriteFails(j) \/ Open(j)
        PROVE  file'.store \in {file.store, NoEntries, memory[j]}
    BY <1>1, <2>1, WrittenFile DEF Open
  <2>2. ASSUME NEW j \in Op, \/ LoadFails(j) \/ LoadToTrust(j) \/ LoadToRevoke(j)
                             \/ LoadToQuery(j) \/ IOError(j)
        PROVE  UNCHANGED file
    BY <2>2 DEF LoadFails, LoadToTrust, LoadToRevoke, LoadToQuery, IOError
  <2> QED
    BY <2>1, <2>2 DEF Next, Step, Call, Crash, vars
<1>8. EntriesAreApproved(file.store)'
  <2>1. ASSUME NEW s \in {file.store, NoEntries} \cup {memory[j] : j \in Op}
        PROVE  EntriesAreApproved(s)
    BY <1>4, <1>6, <2>1
  <2> QED
    BY <1>3, <1>7, <2>1 DEF EntriesAreApproved
<1>9. ASSUME NEW i \in Op PROVE EntriesAreApproved(memory[i])'
  <2>1. ASSUME NEW j \in Op, LoadToTrust(j)
        PROVE  memory'[i] = memory[i] \/ EntriesAreApproved(memory'[i])
    <3>1. call[j].kind = "trust" /\ pc[j] # "idle"
      BY <2>1 DEF LoadToTrust
    <3>2. EntriesAreApproved(Approved(file.store, call[j].node, call[j].fingerprint))
      BY <1>1, <1>5, <1>6, <3>1, ChangeIsApproved
    <3> QED
      BY <1>1, <2>1, <3>2 DEF LoadToTrust, TypeOK
  <2>2. ASSUME NEW j \in Op, LoadToRevoke(j)
        PROVE  memory'[i] = memory[i] \/ EntriesAreApproved(memory'[i])
    <3>1. pc[j] # "idle"
      BY <2>2 DEF LoadToRevoke
    <3>2. file.store[call[j].node] # NoEntry =>
             EntriesAreApproved(Revoked(file.store, call[j].node))
      BY <1>1, <1>5, <1>6, <3>1, ChangeIsApproved
    <3> QED
      BY <1>1, <2>2, <3>2 DEF LoadToRevoke, TypeOK
  <2>3. ASSUME NEW j \in Op, \/ LoadFails(j) \/ LoadToQuery(j) \/ Open(j)
                             \/ IOError(j) \/ Write(j) \/ WriteFails(j)
        PROVE  UNCHANGED memory
    BY <2>3 DEF LoadFails, LoadToQuery, Open, IOError, Write, WriteFails
  <2>4. memory'[i] = memory[i] \/ EntriesAreApproved(memory'[i])
    BY <2>1, <2>2, <2>3 DEF Next, Step, Call, Crash, vars
  <2>5. EntriesAreApproved(memory'[i])
    BY <1>6, <2>4
  <2> QED
    BY <2>5, ApprovedStays, <1>1 DEF EntriesAreApproved
<1>10. ASSUME NEW q \in Op, NEW n \in Node, Succeeded(q, "query", n)', answer'[q]
       PROVE  \E t \in Op : Called(t, "trust", n)'
  <2>1. pc[q] # "idle" /\ call'[q] = call[q]
    BY <1>1, <1>10, Past DEF Succeeded
  <2>2. \E t \in Op : Called(t, "trust", n)
    <3>1. CASE pc[q] = "ok"
      BY <1>1, <1>10, <2>1, <3>1, Past DEF OnlyApprovedIsTrusted, Succeeded
    <3>2. CASE pc[q] # "ok"
      <4>1. LoadToQuery(q)
        BY <1>1, <1>10, <2>1, <3>2, NewSuccess
           DEF Succeeded, Write, Requests, Saving, Writes
      <4>2. Trusted(file.store, n)
        BY <1>1, <1>10, <2>1, <4>1 DEF LoadToQuery, Succeeded, TypeOK
      <4> QED
        BY <1>6, <4>2 DEF Trusted, EntriesAreApproved, IsApproved
    <3> QED
      BY <3>1, <3>2
  <2> QED
    BY <1>1, <2>2, Past DEF Called
<1> QED
  BY <1>2, <1>8, <1>9, <1>10 DEF Sound, OnlyApprovedIsTrusted

(***************************************************************************)
(* A writer that is about to open the file still has its own change of     *)
(* what the file has: nobody else can have written.                        *)
(***************************************************************************)
LEMMA LoadedStep ==
    ASSUME IInv, OneWriter', [Next]_vars
    PROVE  HasLoaded'
<1>1. TypeOK /\ Requests /\ OneWriter /\ HasLoaded
  BY DEF IInv, Sound
<1>2. TypeOK' /\ Requests'
  BY <1>1, TypeStep
<1> USE DEF TypeOK, Active, Ended
<1> SUFFICES ASSUME NEW j \in Op, pc'[j] = "opening"
             PROVE  LET n == call'[j].node
                        fingerprint == call'[j].fingerprint
                    IN  /\ Readable'
                        /\ call'[j].kind = "trust" =>
                              /\ memory'[j] = Approved(file'.store, n, fingerprint)
                              /\ ~KeyChanged(file'.store, n, fingerprint)
                        /\ call'[j].kind = "revoke" =>
                              /\ memory'[j] = Revoked(file'.store, n)
                              /\ file'.store[n] # NoEntry
  BY DEF HasLoaded, Approved, KeyChanged, Revoked
<1>3. CASE pc[j] = "opening"
  <2>1. UNCHANGED file /\ call'[j] = call[j] /\ memory'[j] = memory[j]
    <3>1. Writes(j)
      BY <1>1, <1>3 DEF Requests, Saving
    <3>2. ASSUME NEW k \in Op, Open(k) \/ Write(k) \/ WriteFails(k) PROVE FALSE
      <4>1. Writes(k)
        BY <1>1, <3>2 DEF Requests, Saving, Open, Write, WriteFails
      <4>2. k = j
        BY <1>1, <3>1, <4>1 DEF OneWriter
      <4> QED
        BY <1>1, <1>3, <3>2, <4>2 DEF Open, Write, WriteFails
    <3>3. ASSUME NEW k \in Op, \/ LoadFails(k) \/ LoadToTrust(k) \/ LoadToRevoke(k)
                               \/ LoadToQuery(k) \/ IOError(k)
          PROVE  UNCHANGED <<file, call>> /\ memory'[j] = memory[j]
      BY <1>1, <1>3, <3>3 DEF LoadFails, LoadToTrust, LoadToRevoke, LoadToQuery, IOError
    <3>4. ASSUME NEW k \in Op, NEW kind, NEW n, NEW fp, Call(k, kind, n, fp)
          PROVE  UNCHANGED <<file, memory>> /\ call'[j] = call[j]
      BY <1>1, <1>3, <3>4 DEF Call
    <3> QED
      BY <3>2, <3>3, <3>4 DEF Next, Step, Crash, vars
  <2> QED
    BY <1>1, <1>3, <2>1 DEF HasLoaded, Readable
<1>4. CASE pc[j] # "opening"
  <2>1. LoadToTrust(j) \/ LoadToRevoke(j)
    <3>1. ASSUME NEW k \in Op, \/ LoadFails(k) \/ LoadToQuery(k) \/ Open(k)
                               \/ IOError(k) \/ Write(k) \/ WriteFails(k)
          PROVE  FALSE
      BY <1>1, <1>4, <3>1 DEF LoadFails, LoadToQuery, Open, IOError, Write, WriteFails
    <3>2. ASSUME NEW k \in Op, LoadToTrust(k) \/ LoadToRevoke(k) PROVE k = j
      BY <1>1, <1>4, <3>2 DEF LoadToTrust, LoadToRevoke
    <3>3. ASSUME NEW k \in Op, NEW kind, NEW n, NEW fp, Call(k, kind, n, fp) PROVE FALSE
      BY <1>1, <1>4, <3>3 DEF Call
    <3>4. ~Crash /\ ~UNCHANGED vars
      BY <1>1, <1>4 DEF Crash, vars
    <3> QED
      BY <3>1, <3>2, <3>3, <3>4 DEF Next, Step
  <2>2. CASE LoadToTrust(j)
    <3>1. /\ UNCHANGED <<file, call>> /\ call[j].kind = "trust" /\ Readable
          /\ memory'[j] = Approved(file.store, call[j].node, call[j].fingerprint)
          /\ ~KeyChanged(file.store, call[j].node, call[j].fingerprint)
      BY <1>1, <1>4, <2>2 DEF LoadToTrust
    <3> QED
      BY <3>1 DEF Readable
  <2>3. CASE LoadToRevoke(j)
    <3>1. /\ UNCHANGED <<file, call>> /\ call[j].kind = "revoke" /\ Readable
          /\ memory'[j] = Revoked(file.store, call[j].node)
          /\ file.store[call[j].node] # NoEntry
      BY <1>1, <1>4, <2>3 DEF LoadToRevoke
    <3> QED
      BY <3>1 DEF Readable
  <2> QED
    BY <2>1, <2>2, <2>3
<1> QED
  BY <1>3, <1>4

(***************************************************************************)
(* At first nothing was called, and there is no file.                      *)
(***************************************************************************)
LEMMA InitIInv == Init => IInv
<1> SUFFICES ASSUME Init PROVE IInv
  OBVIOUS
<1> USE DEF Init
<1>1. TypeOK
  BY DEF TypeOK, FileState, Store, NoEntries
<1>2. /\ Requests /\ OneWriter /\ FileIsOwned /\ UnreadableIsTransient
      /\ HasLoaded
  BY DEF Requests, OneWriter, FileIsOwned, UnreadableIsTransient, HasLoaded,
         Readable, Saving, Writes, Active
<1>3. StoresAgree
  BY DEF StoresAgree, Agrees, Saving, Succeeded
<1>4. RevocationIsSeen /\ ApprovalIsSeen /\ OneFingerprint
  BY DEF RevocationIsSeen, ApprovalIsSeen, OneFingerprint, Succeeded
<1>5. OnlyApprovedIsTrusted
  BY DEF OnlyApprovedIsTrusted, EntriesAreApproved, NoEntries, Succeeded
<1> QED
  BY <1>1, <1>2, <1>3, <1>4, <1>5 DEF IInv, Sound

(***************************************************************************)
(* One step, when no two writers overlap after it.                         *)
(***************************************************************************)
LEMMA NextIInv == IInv /\ [Next]_vars /\ OneWriter' => IInv'
BY SoundStep, FileStep, LoadedStep, StoreStep, RevocationStep, ApprovalStep,
   FingerprintStep DEF IInv, Sound

(***************************************************************************)
(* However operations overlap and whenever the process crashes: nobody is  *)
(* trusted whom nobody approved, and no key is pinned that was not         *)
(* approved for its node.                                                  *)
(***************************************************************************)
THEOREM OnlyApproved == Spec => []OnlyApprovedIsTrusted
<1>1. Init => Sound
  BY InitIInv DEF IInv
<1>2. Sound => OnlyApprovedIsTrusted
  BY DEF Sound
<1> QED
  BY <1>1, <1>2, SoundStep, PTL DEF Spec

(***************************************************************************)
(* The inductive invariant, in every behaviour of the store in which no    *)
(* two writers overlap: the file and the store of the writer agree with    *)
(* every operation that has succeeded.                                     *)
(***************************************************************************)
THEOREM Inductive == Spec /\ []OneWriter => []IInv
BY InitIInv, NextIInv, PTL DEF Spec

(***************************************************************************)
(* SerialWriters gives behaviours of that kind only.                       *)
(***************************************************************************)
THEOREM Serial == ASSUME SerialWriters PROVE Spec => []OneWriter
<1>1. Init => TypeOK /\ Requests /\ OneWriter
  BY InitIInv DEF IInv, Sound
<1>2. TypeOK /\ Requests /\ OneWriter /\ [Next]_vars => (TypeOK /\ Requests /\ OneWriter)'
  BY TypeStep, WriterStep
<1> QED
  BY <1>1, <1>2, PTL DEF Spec

(***************************************************************************)
(* While writers do not overlap, a revocation is seen by every query after *)
(* it, until the peer is approved again.                                   *)
(***************************************************************************)
THEOREM RevocationSeen == Spec /\ []OneWriter => []RevocationIsSeen
<1>1. IInv => RevocationIsSeen
  BY DEF IInv
<1> QED
  BY Inductive, <1>1, PTL

(***************************************************************************)
(* While writers do not overlap, an approval is seen by every query after  *)
(* it, until a revocation: what is just being written is never taken for   *)
(* an empty store.                                                         *)
(***************************************************************************)
THEOREM ApprovalSeen == Spec /\ []OneWriter => []ApprovalIsSeen
<1>1. IInv => ApprovalIsSeen
  BY DEF IInv
<1> QED
  BY Inductive, <1>1, PTL

(***************************************************************************)
(* Trust on first use: while writers do not overlap, a node has one        *)
(* fingerprint for ever.                                                   *)
(***************************************************************************)
THEOREM FirstUse == Spec /\ []OneWriter => []OneFingerprint
<1>1. IInv => OneFingerprint
  BY DEF IInv
<1> QED
  BY Inductive, <1>1, PTL

(***************************************************************************)
(* While writers do not overlap, trust.json is unreadable only while it is *)
(* written, or after a writer that crashed or failed.                      *)
(***************************************************************************)
THEOREM Transient == Spec /\ []OneWriter => []UnreadableIsTransient
<1>1. IInv => UnreadableIsTransient
  BY DEF IInv
<1> QED
  BY Inductive, <1>1, PTL

(***************************************************************************)
(* The one writer that writes has in memory what the ledger is.            *)
(***************************************************************************)
LEMMA PresentIs ==
    ASSUME TypeOK, Requests, OneWriter
    PROVE  /\ Writing = {} => Present = file.store
           /\ \A j \in Op : pc[j] = "writing" => Writing = {j} /\ Present = memory[j]
<1>1. ASSUME NEW j \in Op, pc[j] = "writing"
      PROVE  Writing = {j} /\ Present = memory[j]
  <2>1. \A k \in Op : pc[k] = "writing" => k = j
    BY <1>1 DEF Requests, Saving, OneWriter
  <2>2. Writing = {j}
    BY <1>1, <2>1 DEF Writing
  <2>3. (CHOOSE k \in Writing : TRUE) = j
    BY <2>2
  <2> QED
    BY <2>2, <2>3 DEF Present
<1> QED
  BY <1>1 DEF Present

(***************************************************************************)
(* What the changes to a store do to the keys and the trusted nodes.       *)
(***************************************************************************)
LEMMA LedgerChange ==
    ASSUME NEW s \in Store, NEW n \in Node
    PROVE  /\ \A fp \in Fingerprint :
                 /\ KeyOf(Approved(s, n, fp)) = [KeyOf(s) EXCEPT ![n] = fp]
                 /\ TrustedIn(Approved(s, n, fp)) = TrustedIn(s) \cup {n}
                 /\ KeyChanged(s, n, fp) <=> KeyOf(s)[n] \notin {NoEntry, fp}
           /\ s[n] # NoEntry =>
                 /\ KeyOf(Revoked(s, n)) = KeyOf(s)
                 /\ TrustedIn(Revoked(s, n)) = TrustedIn(s) \ {n}
           /\ s[n] = NoEntry <=> KeyOf(s)[n] = NoEntry
<1>1. \A m \in Node : s[m] # NoEntry => s[m] \in Entry
  BY DEF Store
<1>2. \A m \in Node : s[m] # NoEntry => s[m].fingerprint # NoEntry
  BY <1>1, TrustAssumption DEF Entry
<1>3. ASSUME NEW fp \in Fingerprint PROVE [fingerprint |-> fp, revoked |-> FALSE] # NoEntry
  <2>1. [fingerprint |-> fp, revoked |-> FALSE] \in Entry
    BY DEF Entry
  <2> QED
    BY <2>1, TrustAssumption
<1>4. ASSUME NEW fp \in Fingerprint
      PROVE  /\ KeyOf(Approved(s, n, fp)) = [KeyOf(s) EXCEPT ![n] = fp]
             /\ TrustedIn(Approved(s, n, fp)) = TrustedIn(s) \cup {n}
             /\ KeyChanged(s, n, fp) <=> KeyOf(s)[n] \notin {NoEntry, fp}
  <2> DEFINE a == Approved(s, n, fp)
  <2>1. /\ a[n] = [fingerprint |-> fp, revoked |-> FALSE]
        /\ \A m \in Node \ {n} : a[m] = s[m]
    BY DEF Approved, Store
  <2>2. a[n] # NoEntry /\ a[n].fingerprint = fp /\ ~a[n].revoked
    BY <1>3, <2>1
  <2> HIDE DEF a
  <2>3. KeyOf(a) = [KeyOf(s) EXCEPT ![n] = fp]
    BY <2>1, <2>2 DEF KeyOf
  <2>4. TrustedIn(a) = TrustedIn(s) \cup {n}
    BY <2>1, <2>2 DEF TrustedIn, Trusted
  <2>5. KeyChanged(s, n, fp) <=> KeyOf(s)[n] \notin {NoEntry, fp}
    BY <1>2 DEF KeyChanged, KeyOf
  <2> QED
    BY <2>3, <2>4, <2>5 DEF a
<1>5. ASSUME s[n] # NoEntry
      PROVE  /\ KeyOf(Revoked(s, n)) = KeyOf(s)
             /\ TrustedIn(Revoked(s, n)) = TrustedIn(s) \ {n}
  <2> DEFINE a == Revoked(s, n)
  <2>1. /\ a[n].fingerprint = s[n].fingerprint /\ a[n].revoked /\ a[n] \in Entry
        /\ \A m \in Node \ {n} : a[m] = s[m]
    BY <1>1, <1>5 DEF Revoked, Store, Entry
  <2>2. a[n] # NoEntry
    BY <2>1, TrustAssumption
  <2> HIDE DEF a
  <2>3. KeyOf(a) = KeyOf(s)
    BY <1>5, <2>1, <2>2 DEF KeyOf
  <2>4. TrustedIn(a) = TrustedIn(s) \ {n}
    BY <2>1, <2>2 DEF TrustedIn, Trusted
  <2> QED
    BY <2>3, <2>4 DEF a
<1>6. s[n] = NoEntry <=> KeyOf(s)[n] = NoEntry
  BY <1>2 DEF KeyOf
<1> QED
  BY <1>4, <1>5, <1>6

(***************************************************************************)
(* The stages follow the awaits.                                           *)
(***************************************************************************)
LEMMA StageStep ==
    ASSUME TypeOK, NEW j \in Op, NEW p, pc' = [pc EXCEPT ![j] = p]
    PROVE  /\ Stage' = [Stage EXCEPT ![j] = StageOf(p)]
           /\ Stage[j] = StageOf(pc[j])
           /\ p # "writing" /\ pc[j] # "writing" => Writing' = Writing
           /\ p = "writing" => Writing' = Writing \cup {j}
<1>1. \A i \in Op : pc'[i] = IF i = j THEN p ELSE pc[i]
  BY DEF TypeOK
<1>2. Stage' = [Stage EXCEPT ![j] = StageOf(p)] /\ Stage[j] = StageOf(pc[j])
  BY <1>1 DEF Stage, StageOf
<1> QED
  BY <1>1, <1>2 DEF Writing

(***************************************************************************)
(* What the stages are, and which operation has applied its change.        *)
(***************************************************************************)
LEMMA Stages ==
    ASSUME TypeOK
    PROVE  /\ {j \in Op : Stage[j] = "applied"} = Writing
           /\ StageOf("idle") = "idle" /\ StageOf("loading") = "called"
           /\ StageOf("opening") = "called" /\ StageOf("writing") = "applied"
           /\ \A p \in Ended : StageOf(p) = p
<1>1. /\ StageOf("idle") = "idle" /\ StageOf("loading") = "called"
      /\ StageOf("opening") = "called" /\ StageOf("writing") = "applied"
      /\ \A p \in Ended : StageOf(p) = p
  BY DEF StageOf, Ended
<1>2. \A j \in Op : pc[j] \in {"idle", "loading", "opening", "writing"} \cup Ended
  BY DEF TypeOK, Active
<1>3. \A j \in Op : Stage[j] = "applied" <=> pc[j] = "writing"
  BY <1>1, <1>2 DEF Stage, Ended
<1> QED
  BY <1>1, <1>3 DEF Writing

(***************************************************************************)
(* An operation that has loaded the store ends, or goes on to open it.     *)
(***************************************************************************)
LEMMA EndStep ==
    ASSUME TypeOK, NEW j \in Op, pc[j] = "loading", NEW p \in Ended,
           pc' = [pc EXCEPT ![j] = p]
    PROVE  /\ Stage[j] = "called" /\ Stage' = [Stage EXCEPT ![j] = p]
           /\ Writing' = Writing
<1>1. /\ Stage' = [Stage EXCEPT ![j] = StageOf(p)]
      /\ Stage[j] = StageOf("loading")
      /\ p # "writing" => Writing' = Writing
  BY StageStep
<1>2. StageOf(p) = p /\ StageOf("loading") = "called" /\ p # "writing"
  BY Stages DEF Ended
<1> QED
  BY <1>1, <1>2

(***************************************************************************)
(* Loading and opening are one stage of the ledger.                        *)
(***************************************************************************)
LEMMA GoOn ==
    ASSUME TypeOK, NEW j \in Op, pc[j] = "loading", pc' = [pc EXCEPT ![j] = "opening"]
    PROVE  Stage' = Stage /\ Writing' = Writing
<1>1. /\ Stage' = [Stage EXCEPT ![j] = StageOf("opening")]
      /\ Stage[j] = StageOf("loading")
      /\ Writing' = Writing
  BY StageStep
<1>2. StageOf("opening") = StageOf("loading")
  BY Stages
<1> QED
  BY <1>1, <1>2 DEF Stage

(***************************************************************************)
(* The store that has no file is the ledger that has no keys.              *)
(***************************************************************************)
LEMMA InitLedger == Init => Ledger!Init
<1> SUFFICES ASSUME Init PROVE Ledger!Init
  OBVIOUS
<1> USE DEF Init
<1>1. Writing = {} /\ Present = NoEntries
  BY DEF Writing, Present
<1>2. Stage = [j \in Op |-> "idle"]
  BY DEF Stage, StageOf
<1>3. KeyOf(NoEntries) = [n \in Node |-> NoEntry] /\ TrustedIn(NoEntries) = {}
  BY DEF KeyOf, TrustedIn, Trusted, NoEntries
<1>4. Readable
  BY DEF Readable
<1> QED
  BY <1>1, <1>2, <1>3, <1>4 DEF Ledger!Init

(***************************************************************************)
(* Every step of the store is a step of the ledger or leaves it as it is.  *)
(***************************************************************************)
LEMMA LedgerStep ==
    IInv /\ [Next]_vars /\ OneWriter' => [Ledger!Next]_(Ledger!vars)
<1> SUFFICES ASSUME IInv, [Next]_vars, OneWriter'
             PROVE  Ledger!Next \/ UNCHANGED Ledger!vars
  OBVIOUS
<1> DEFINE key == KeyOf(Present)
           trusted == TrustedIn(Present)
           lost == ~Readable /\ Writing = {}
<1>1. TypeOK /\ Requests /\ OneWriter /\ FileIsOwned /\ HasLoaded
  BY DEF IInv, Sound
<1>2. TypeOK' /\ Requests'
  BY <1>1, TypeStep
<1>3. Readable => Writing = {} /\ Present = file.store
  BY <1>1, PresentIs DEF FileIsOwned, Readable, Writing
<1>4. Ledger!Applied = Writing /\ (Ledger!Legible <=> Readable)
  BY <1>1, <1>3, Stages DEF Ledger!Applied, Ledger!Legible
<1>5. file.store \in Store
  BY <1>1 DEF TypeOK
<1>6. ASSUME NEW j \in Op, pc[j] # "idle"
      PROVE  call[j].node \in Node /\ (call[j].kind = "trust" => call[j].fingerprint \in Fingerprint)
  BY <1>1, <1>6 DEF Requests, Request
<1>7. ASSUME UNCHANGED <<file, memory>>, Writing' = Writing
      PROVE  key' = key /\ trusted' = trusted /\ lost' = lost
  <2>1. Present' = Present /\ Readable' = Readable
    BY <1>7 DEF Present, Readable
  <2> QED
    BY <1>7, <2>1 DEF KeyOf, TrustedIn, Trusted
<1>8. ASSUME NEW j \in Op, NEW kind, NEW n, NEW fp, Call(j, kind, n, fp)
      PROVE  Ledger!Request(j, kind, n, fp)
  <2>1. /\ pc[j] = "idle" /\ pc' = [pc EXCEPT ![j] = "loading"]
        /\ UNCHANGED <<file, memory, answer>>
        /\ call' = [call EXCEPT ![j] = [kind |-> kind, node |-> n, fingerprint |-> fp]]
    BY <1>8 DEF Call
  <2>2. /\ Stage[j] = "idle" /\ Stage' = [Stage EXCEPT ![j] = "called"]
        /\ Writing' = Writing
    <3>1. /\ Stage' = [Stage EXCEPT ![j] = StageOf("loading")]
          /\ Stage[j] = StageOf("idle")
          /\ Writing' = Writing
      BY <1>1, <2>1, StageStep
    <3> QED
      BY <1>1, <3>1, Stages
  <2> QED
    BY <1>7, <2>1, <2>2 DEF Ledger!Request
<1>9. ASSUME NEW j \in Op, LoadFails(j) PROVE Ledger!Fail(j)
  <2>1. /\ pc[j] = "loading" /\ pc' = [pc EXCEPT ![j] = "parseError"]
        /\ UNCHANGED <<file, memory, call, answer>> /\ ~Readable
    BY <1>9 DEF LoadFails
  <2>2. /\ Stage[j] = "called" /\ Stage' = [Stage EXCEPT ![j] = "parseError"]
        /\ Writing' = Writing
    BY <1>1, <2>1, EndStep DEF Ended
  <2> QED
    BY <1>4, <1>7, <2>1, <2>2 DEF Ledger!Fail, Ledger!End
<1>10. ASSUME NEW j \in Op, LoadToTrust(j)
       PROVE  Ledger!RefuseKey(j) \/ UNCHANGED Ledger!vars
  <2>1. /\ pc[j] = "loading" /\ call[j].kind = "trust" /\ Readable
        /\ UNCHANGED <<file, call, answer>>
    BY <1>10 DEF LoadToTrust
  <2>2. CASE KeyChanged(file.store, call[j].node, call[j].fingerprint)
    <3>1. pc' = [pc EXCEPT ![j] = "mitm"] /\ UNCHANGED memory
      BY <1>10, <2>2 DEF LoadToTrust
    <3>2. /\ Stage[j] = "called" /\ Stage' = [Stage EXCEPT ![j] = "mitm"]
          /\ Writing' = Writing
      BY <1>1, <2>1, <3>1, EndStep DEF Ended
    <3>3. key[call[j].node] \notin {NoEntry, call[j].fingerprint}
      BY <1>3, <1>5, <1>6, <2>1, <2>2, LedgerChange
    <3> QED
      BY <1>4, <1>7, <2>1, <3>1, <3>2, <3>3
         DEF Ledger!RefuseKey, Ledger!IsCalled, Ledger!End
  <2>3. CASE ~KeyChanged(file.store, call[j].node, call[j].fingerprint)
    <3>1. pc' = [pc EXCEPT ![j] = "opening"]
      BY <1>10, <2>3 DEF LoadToTrust
    <3>2. Stage' = Stage /\ Writing' = Writing
      BY <1>1, <2>1, <3>1, GoOn
    <3>3. Present' = Present /\ Readable' = Readable
      BY <1>3, <2>1, <3>2 DEF Present, Readable
    <3> QED
      BY <2>1, <3>2, <3>3 DEF Ledger!vars, KeyOf, TrustedIn, Trusted
  <2> QED
    BY <2>2, <2>3
<1>11. ASSUME NEW j \in Op, LoadToRevoke(j)
       PROVE  Ledger!FindNothing(j) \/ UNCHANGED Ledger!vars
  <2>1. /\ pc[j] = "loading" /\ call[j].kind = "revoke" /\ Readable
        /\ UNCHANGED <<file, call, answer>>
    BY <1>11 DEF LoadToRevoke
  <2>2. CASE file.store[call[j].node] = NoEntry
    <3>1. pc' = [pc EXCEPT ![j] = "notFound"] /\ UNCHANGED memory
      BY <1>11, <2>2 DEF LoadToRevoke
    <3>2. /\ Stage[j] = "called" /\ Stage' = [Stage EXCEPT ![j] = "notFound"]
          /\ Writing' = Writing
      BY <1>1, <2>1, <3>1, EndStep DEF Ended
    <3>3. key[call[j].node] = NoEntry
      BY <1>3, <1>5, <1>6, <2>1, <2>2, LedgerChange
    <3> QED
      BY <1>4, <1>7, <2>1, <3>1, <3>2, <3>3
         DEF Ledger!FindNothing, Ledger!IsCalled, Ledger!End
  <2>3. CASE file.store[call[j].node] # NoEntry
    <3>1. pc' = [pc EXCEPT ![j] = "opening"]
      BY <1>11, <2>3 DEF LoadToRevoke
    <3>2. Stage' = Stage /\ Writing' = Writing
      BY <1>1, <2>1, <3>1, GoOn
    <3>3. Present' = Present /\ Readable' = Readable
      BY <1>3, <2>1, <3>2 DEF Present, Readable
    <3> QED
      BY <2>1, <3>2, <3>3 DEF Ledger!vars, KeyOf, TrustedIn, Trusted
  <2> QED
    BY <2>2, <2>3
<1>12. ASSUME NEW j \in Op, LoadToQuery(j) PROVE Ledger!Answer(j)
  <2>1. /\ pc[j] = "loading" /\ call[j].kind = "query" /\ Readable
        /\ UNCHANGED <<file, call, memory>>
        /\ pc' = [pc EXCEPT ![j] = "ok"]
        /\ answer' = [answer EXCEPT ![j] = Trusted(file.store, call[j].node)]
    BY <1>12 DEF LoadToQuery
  <2>2. /\ Stage[j] = "called" /\ Stage' = [Stage EXCEPT ![j] = "ok"]
        /\ Writing' = Writing
    BY <1>1, <2>1, EndStep DEF Ended
  <2>3. (call[j].node \in trusted) = Trusted(file.store, call[j].node)
    BY <1>3, <1>6, <2>1 DEF TrustedIn, Trusted
  <2>4. answer' = [answer EXCEPT ![j] = call[j].node \in trusted]
    BY <2>1, <2>3
  <2>5. key' = key /\ trusted' = trusted /\ lost' = lost
    BY <1>7, <2>1, <2>2
  <2> QED
    BY <1>4, <2>1, <2>2, <2>4, <2>5 DEF Ledger!Answer, Ledger!IsCalled, Ledger!End
<1>13. ASSUME NEW j \in Op, Open(j) PROVE Ledger!Approve(j) \/ Ledger!Revoke(j)
  <2> DEFINE n == call[j].node
  <2>1. /\ pc[j] = "opening" /\ pc' = [pc EXCEPT ![j] = "writing"]
        /\ UNCHANGED <<call, memory, answer>>
    BY <1>13 DEF Open
  <2>2. Readable /\ Writing = {} /\ Present = file.store
    BY <1>1, <1>3, <2>1 DEF HasLoaded
  <2>3. /\ Stage[j] = "called" /\ Stage' = [Stage EXCEPT ![j] = "applied"]
        /\ Writing' = {j}
    <3>1. /\ Stage' = [Stage EXCEPT ![j] = StageOf("writing")]
          /\ Stage[j] = StageOf("opening")
          /\ Writing' = {j}
      BY <1>1, <2>1, <2>2, StageStep
    <3> QED
      BY <1>1, <3>1, Stages
  <2>4. Present' = memory[j]
    <3>1. (CHOOSE k \in {j} : TRUE) = j
      OBVIOUS
    <3> QED
      BY <2>1, <2>3, <3>1 DEF Present
  <2>5. lost' = FALSE /\ lost = FALSE
    BY <2>2, <2>3
  <2>6. key' = KeyOf(memory[j]) /\ trusted' = TrustedIn(memory[j])
    BY <2>4 DEF KeyOf, TrustedIn, Trusted
  <2>7. n \in Node
    BY <1>6, <2>1
  <2>8. CASE call[j].kind = "trust"
    <3>1. /\ memory[j] = Approved(file.store, n, call[j].fingerprint)
          /\ ~KeyChanged(file.store, n, call[j].fingerprint)
      BY <1>1, <2>1, <2>8 DEF HasLoaded
    <3>2. call[j].fingerprint \in Fingerprint
      BY <1>6, <2>1, <2>8
    <3>3. /\ key' = [key EXCEPT ![n] = call[j].fingerprint]
          /\ trusted' = trusted \cup {n}
          /\ key[n] \in {NoEntry, call[j].fingerprint}
      BY <1>5, <2>2, <2>6, <2>7, <3>1, <3>2, LedgerChange
    <3> HIDE DEF key, trusted
    <3>4. Ledger!Approve(j)
      BY <1>4, <2>1, <2>2, <2>3, <2>5, <2>8, <3>3
         DEF Ledger!Approve, Ledger!IsCalled, Ledger!End, key, trusted
    <3> QED
      BY <3>4
  <2>9. CASE call[j].kind = "revoke"
    <3>1. memory[j] = Revoked(file.store, n) /\ file.store[n] # NoEntry
      BY <1>1, <2>1, <2>9 DEF HasLoaded
    <3>2. /\ key' = key
          /\ trusted' = trusted \ {n}
          /\ key[n] # NoEntry
      BY <1>5, <2>2, <2>6, <2>7, <3>1, LedgerChange
    <3>3. Ledger!Revoke(j)
      BY <1>4, <2>1, <2>2, <2>3, <2>5, <2>9, <3>2
         DEF Ledger!Revoke, Ledger!IsCalled, Ledger!End
    <3> QED
      BY <3>3
  <2>10. call[j].kind \in {"trust", "revoke"}
    BY <1>1, <2>1 DEF Requests, Saving, Writes
  <2> QED
    BY <2>8, <2>9, <2>10
<1>14. ASSUME NEW j \in Op, Write(j) PROVE Ledger!Return(j)
  <2>1. /\ pc[j] = "writing" /\ pc' = [pc EXCEPT ![j] = "ok"]
        /\ UNCHANGED <<call, memory, answer>>
    BY <1>14 DEF Write
  <2>2. file'.state = "json" /\ file'.store = memory[j]
    BY <1>1, <1>14, FileStep DEF IInv
  <2>3. Writing = {j} /\ Present = memory[j]
    BY <1>1, <2>1, PresentIs
  <2>4. /\ Stage[j] = "applied" /\ Stage' = [Stage EXCEPT ![j] = "ok"]
        /\ Writing' = {}
    <3>1. /\ Stage' = [Stage EXCEPT ![j] = StageOf("ok")]
          /\ Stage[j] = StageOf("writing")
      BY <1>1, <2>1, StageStep
    <3>2. Writing' = {}
      BY <1>1, <2>1, <2>3 DEF Writing, TypeOK
    <3> QED
      BY <1>1, <3>1, <3>2, Stages DEF Ended
  <2>5. Present' = Present
    BY <2>2, <2>3, <2>4 DEF Present
  <2>6. key' = key /\ trusted' = trusted
    BY <2>5 DEF KeyOf, TrustedIn, Trusted
  <2>7. lost' = FALSE /\ lost = FALSE
    BY <2>2, <2>3 DEF Readable
  <2> QED
    BY <2>1, <2>4, <2>6, <2>7 DEF Ledger!Return, Ledger!End
<1>15. ASSUME NEW j \in Op, IOError(j) PROVE Ledger!Break(j)
  <2>1. /\ pc[j] \in {"loading", "opening"} /\ pc' = [pc EXCEPT ![j] = "ioError"]
        /\ UNCHANGED <<file, memory, call, answer>>
    BY <1>15 DEF IOError
  <2>2. /\ Stage[j] = "called" /\ Stage' = [Stage EXCEPT ![j] = "ioError"]
        /\ Writing' = Writing
    <3>1. /\ Stage' = [Stage EXCEPT ![j] = StageOf("ioError")]
          /\ Stage[j] = StageOf(pc[j])
          /\ Writing' = Writing
      BY <1>1, <2>1, StageStep
    <3> QED
      BY <1>1, <2>1, <3>1, Stages DEF Ended
  <2> QED
    BY <1>7, <2>1, <2>2 DEF Ledger!Break, Ledger!End
<1>16. ASSUME NEW j \in Op, WriteFails(j) PROVE Ledger!Abort(j)
  <2>1. /\ pc[j] = "writing" /\ pc' = [pc EXCEPT ![j] = "ioError"]
        /\ UNCHANGED <<call, memory, answer>>
    BY <1>16 DEF WriteFails
  <2>2. Writing = {j} /\ Present = memory[j]
    BY <1>1, <2>1, PresentIs
  <2>3. /\ Stage[j] = "applied" /\ Stage' = [Stage EXCEPT ![j] = "ioError"]
        /\ Writing' = {}
    <3>1. /\ Stage' = [Stage EXCEPT ![j] = StageOf("ioError")]
          /\ Stage[j] = StageOf("writing")
      BY <1>1, <2>1, StageStep
    <3>2. Writing' = {}
      BY <1>1, <2>1, <2>2 DEF Writing, TypeOK
    <3> QED
      BY <1>1, <3>1, <3>2, Stages DEF Ended
  <2>4. Present' = file'.store
    BY <2>3 DEF Present
  <2>5. CASE Readable'
    <3>1. Present' = Present
      BY <1>1, <1>16, <2>2, <2>4, <2>5, FileStep DEF IInv
    <3>2. key' = key /\ trusted' = trusted
      BY <3>1 DEF KeyOf, TrustedIn, Trusted
    <3>3. lost' = FALSE /\ lost = FALSE
      BY <2>2, <2>5
    <3> QED
      BY <2>1, <2>3, <3>2, <3>3 DEF Ledger!Abort, Ledger!End
  <2>6. CASE ~Readable'
    <3>1. file'.store = NoEntries
      BY <1>1, <2>6, FileStep DEF IInv, FileIsOwned, Readable
    <3>2. Present' = NoEntries /\ lost' = TRUE
      BY <2>3, <2>4, <2>6, <3>1
    <3>3. key' = [n \in Node |-> NoEntry] /\ trusted' = {}
      BY <3>2 DEF KeyOf, TrustedIn, Trusted, NoEntries
    <3> QED
      BY <2>1, <2>3, <3>2, <3>3 DEF Ledger!Abort, Ledger!End, Ledger!Lose
  <2> QED
    BY <2>5, <2>6
<1>17. ASSUME Crash PROVE Ledger!Crash
  <2>1. /\ pc' = [j \in Op |-> IF pc[j] \in Active THEN "crashed" ELSE pc[j]]
        /\ UNCHANGED <<file, call, memory, answer>>
    BY <1>17 DEF Crash
  <2>2. Writing' = {}
    BY <2>1 DEF Writing, Active
  <2>3. Stage' = [j \in Op |-> IF Stage[j] \in {"called", "applied"}
                               THEN "crashed" ELSE Stage[j]]
    BY <1>1, <2>1 DEF Stage, StageOf, TypeOK, Active, Ended
  <2>4. CASE Writing = {}
    <3>1. key' = key /\ trusted' = trusted /\ lost' = lost
      BY <1>7, <2>1, <2>2, <2>4
    <3> QED
      BY <1>4, <2>1, <2>3, <2>4, <3>1 DEF Ledger!Crash
  <2>5. CASE Writing # {}
    <3>1. ~Readable /\ file.store = NoEntries
      BY <1>1, <2>5 DEF Writing, FileIsOwned, Readable
    <3>2. Present' = NoEntries /\ lost' = TRUE
      BY <2>1, <2>2, <3>1 DEF Present, Readable
    <3>3. key' = [n \in Node |-> NoEntry] /\ trusted' = {}
      BY <3>2 DEF KeyOf, TrustedIn, Trusted, NoEntries
    <3> QED
      BY <1>4, <2>1, <2>3, <2>5, <3>2, <3>3 DEF Ledger!Crash, Ledger!Lose
  <2> QED
    BY <2>4, <2>5
<1>18. ASSUME UNCHANGED vars PROVE UNCHANGED Ledger!vars
  <2>1. Writing' = Writing /\ Stage' = Stage /\ UNCHANGED <<file, memory, call, answer>>
    BY <1>18 DEF vars, Writing, Stage
  <2> QED
    BY <1>7, <2>1 DEF Ledger!vars
<1> QED
  BY <1>8, <1>9, <1>10, <1>11, <1>12, <1>13, <1>14, <1>15, <1>16, <1>17, <1>18
     DEF Next, Step, Ledger!Next, Ledger!Step

(***************************************************************************)
(* While writers do not overlap, trust.json implements the ledger: a       *)
(* change takes effect at one moment, no query sees half of it, and only a *)
(* crash or an error between truncation and write can lose the ledger.     *)
(***************************************************************************)
THEOREM Implements == Spec /\ []OneWriter => ImplementsTrustLedger
BY InitLedger, LedgerStep, Inductive, PTL DEF Spec, ImplementsTrustLedger, Ledger!Spec
=============================================================================

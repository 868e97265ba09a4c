-------------------------- MODULE ConversationsProofs --------------------------
(***************************************************************************)
(* Starting conversations, for any number of overlapping calls, tenants,   *)
(* properties, relay numbers and rows, with or without faults: how far the *)
(* unlocked lookup and the unlocked pool can go wrong.                     *)
(***************************************************************************)
EXTENDS Conversations, SequenceTheorems, FiniteSetTheorems, TLAPS

ThreadsTyped == ThreadsTypeOK /\ call = [r \in Slot |-> call[r]]

\* A start in progress has seen every conversation its tenant already has about
\* the property, but for those inserted since it looked.
SeenInv ==
    \A r \in Slot : At(r, "assignRelay") \/ At(r, "createThread") =>
        /\ call[r].seen <= Len(threads)
        /\ \A i \in DOMAIN threads :
              threads[i].tenant = call[r].tenant /\ threads[i].home = call[r].home
                  => call[r].seen < i

\* The calls that have chosen a number but not assigned it yet.
Chosen(n) == {r \in Slot : At(r, "createThread") /\ call[r].relay = n}
Holders(n) == {i \in DOMAIN threads : threads[i].relay = n}

\* Every call that has chosen a number found it below its limit.
PoolInv ==
    \A n \in Relay : Cardinality(Holders(n)) + Cardinality(Chosen(n)) <= Capacity + Overlap

ThreadsInv == ThreadsTyped /\ SeenInv /\ DuplicateNeedsOverlap

\* Nothing has started.
LEMMA InitThreads == ASSUME ThreadsInit PROVE ThreadsInv
<1>1. threads = <<>> /\ \A r \in Slot : call[r] = Free
  BY DEF ThreadsInit, NoCalls
<1>2. ThreadsTyped
  BY <1>1 DEF ThreadsInit, NoCalls, ThreadsTyped, ThreadsTypeOK
<1>3. SeenInv /\ DuplicateNeedsOverlap
  BY <1>1 DEF SeenInv, DuplicateNeedsOverlap, At, Free
<1> QED BY <1>2, <1>3 DEF ThreadsInv

\* Looking for a conversation and choosing a number change no row.
LEMMA LookThreads ==
    ASSUME ThreadsInv, NEW r \in Slot,
           \/ \E u \in Seeker, h \in Home : BeginStart(r, u, h)
           \/ AssignRelay(r) \/ PoolExhausted(r) \/ AbortStart(r)
    PROVE  ThreadsInv'
<1> USE DEF ThreadsInv
<1>0. threads \in Seq(ThreadRow) /\ r \in DOMAIN call /\ Len(threads) \in Nat
  BY DEF ThreadsTyped, ThreadsTypeOK
<1>1. threads' = threads
  BY DEF BeginStart, AssignRelay, PoolExhausted, AbortStart
<1>2. DuplicateNeedsOverlap'
  BY <1>1 DEF DuplicateNeedsOverlap
<1>3. ASSUME NEW u \in Seeker, NEW h \in Home, BeginStart(r, u, h) PROVE ThreadsTyped' /\ SeenInv'
  <2> DEFINE new == [step |-> "assignRelay", tenant |-> u, home |-> h, seen |-> Len(threads)]
  <2>1. call' = [call EXCEPT ![r] = new] /\ OpenThreads(u, h) = {}
    BY <1>3 DEF BeginStart, Begin
  <2>2. new \in StartCall
    BY <1>0 DEF StartCall
  <2>3. ThreadsTyped'
    BY <1>0, <1>1, <2>1, <2>2 DEF ThreadsTyped, ThreadsTypeOK
  <2>4. \A i \in DOMAIN threads : ~(threads[i].tenant = u /\ threads[i].home = h)
    BY <2>1 DEF OpenThreads
  <2>5. SeenInv'
    BY <1>0, <1>1, <2>1, <2>4 DEF SeenInv, At
  <2> QED BY <2>3, <2>5
<1>4. CASE AssignRelay(r)
  <2>1. PICK n \in Available :
            call' = [call EXCEPT ![r] = [step |-> "createThread", tenant |-> call[r].tenant,
                                         home |-> call[r].home, seen |-> call[r].seen,
                                         relay |-> n]]
    BY <1>4 DEF AssignRelay
  <2>2. At(r, "assignRelay") /\ call[r] \in StartCall /\ n \in Relay
    BY <1>4, <2>1 DEF AssignRelay, At, Available, ThreadsTyped, ThreadsTypeOK, Free
  <2>3. [step |-> "createThread", tenant |-> call[r].tenant, home |-> call[r].home,
         seen |-> call[r].seen, relay |-> n] \in StartCall
    BY <2>2 DEF StartCall
  <2>4. ThreadsTyped'
    BY <1>0, <1>1, <2>1, <2>3 DEF ThreadsTyped, ThreadsTypeOK
  <2>5. SeenInv'
    BY <1>0, <1>1, <2>1, <2>2 DEF SeenInv, At
  <2> QED BY <1>2, <2>4, <2>5
<1>5. ASSUME call' = [call EXCEPT ![r] = Free] PROVE ThreadsTyped' /\ SeenInv'
  <2>1. ThreadsTyped'
    BY <1>0, <1>1, <1>5 DEF ThreadsTyped, ThreadsTypeOK
  <2>2. SeenInv'
    BY <1>0, <1>1, <1>5 DEF SeenInv, At, Free
  <2> QED BY <2>1, <2>2
<1>6. CASE PoolExhausted(r) \/ AbortStart(r)
  BY <1>2, <1>5, <1>6 DEF PoolExhausted, AbortStart, Abort, Return
<1> QED BY <1>2, <1>3, <1>4, <1>6

\* The insert: its tenant's other conversations about the property are younger
\* than its lookup.
LEMMA InsertThreads ==
    ASSUME ThreadsInv, NEW r \in Slot, CreateThread(r) PROVE ThreadsInv'
<1> DEFINE row == [tenant |-> call[r].tenant, home |-> call[r].home, relay |-> call[r].relay,
                   status |-> "NEW_INQUIRY", seen |-> call[r].seen]
<1> USE DEF ThreadsInv
<1>0. /\ threads \in Seq(ThreadRow) /\ r \in DOMAIN call /\ Len(threads) \in Nat
      /\ \A s \in Slot : call[s] \in {Free} \cup StartCall
  BY DEF ThreadsTyped, ThreadsTypeOK
<1>1. /\ At(r, "createThread") /\ threads' = Append(threads, row)
      /\ call' = [call EXCEPT ![r] = Free]
  BY DEF CreateThread, Return
<1>2. call[r] \in StartCall /\ call[r].step = "createThread"
  BY <1>0, <1>1 DEF At, Free
<1>3. row \in ThreadRow
  BY <1>2 DEF StartCall, ThreadRow
<1>4. /\ threads' \in Seq(ThreadRow) /\ Len(threads') = Len(threads) + 1
      /\ \A i \in DOMAIN threads' : \/ i \in DOMAIN threads /\ threads'[i] = threads[i]
                                    \/ i = Len(threads) + 1 /\ threads'[i] = row
  BY <1>0, <1>1, <1>3
<1>5. ThreadsTyped'
  BY <1>0, <1>1, <1>4 DEF ThreadsTyped, ThreadsTypeOK
<1>6. SeenInv'
  <2> SUFFICES ASSUME NEW s \in Slot, (At(s, "assignRelay") \/ At(s, "createThread"))'
               PROVE  /\ call'[s].seen <= Len(threads')
                      /\ \A i \in DOMAIN threads' :
                            threads'[i].tenant = call'[s].tenant /\ threads'[i].home = call'[s].home
                                => call'[s].seen < i
    BY DEF SeenInv
  <2>1. s # r /\ call'[s] = call[s] /\ (At(s, "assignRelay") \/ At(s, "createThread"))
    BY <1>0, <1>1 DEF At, Free
  <2>2. call[s] \in StartCall
    BY <1>0, <2>1 DEF At, Free
  <2>3. call[s].seen \in Nat
    BY <2>2 DEF StartCall
  <2>4. /\ call[s].seen <= Len(threads)
        /\ \A i \in DOMAIN threads :
              threads[i].tenant = call[s].tenant /\ threads[i].home = call[s].home
                  => call[s].seen < i
    BY <2>1 DEF SeenInv
  <2> QED BY <1>0, <1>4, <2>1, <2>3, <2>4
<1>7. DuplicateNeedsOverlap'
  <2> SUFFICES ASSUME NEW i \in DOMAIN threads', NEW j \in DOMAIN threads', i < j,
                      threads'[i].tenant = threads'[j].tenant, threads'[i].home = threads'[j].home
               PROVE  threads'[j].seen < i
    BY DEF DuplicateNeedsOverlap
  <2>1. i \in DOMAIN threads /\ threads'[i] = threads[i]
    BY <1>0, <1>4
  <2>2. CASE j \in DOMAIN threads /\ threads'[j] = threads[j]
    BY <2>1, <2>2 DEF DuplicateNeedsOverlap
  <2>3. CASE threads'[j] = row
    <3>1. threads[i].tenant = call[r].tenant /\ threads[i].home = call[r].home
      BY <2>1, <2>3
    <3>2. call[r].seen < i
      BY <1>1, <2>1, <3>1 DEF SeenInv
    <3> QED BY <2>3, <3>2
  <2> QED BY <1>4, <2>2, <2>3
<1> QED BY <1>5, <1>6, <1>7

\* An answer changes a status and nothing these properties look at.
LEMMA AnswerThreads ==
    ASSUME ThreadsTyped, NEW i \in DOMAIN threads, Answered(i)
    PROVE  /\ threads' \in Seq(ThreadRow) /\ call' = call
           /\ Len(threads') = Len(threads) /\ DOMAIN threads' = DOMAIN threads
           /\ \A k \in DOMAIN threads :
                 /\ threads'[k].tenant = threads[k].tenant /\ threads'[k].home = threads[k].home
                 /\ threads'[k].relay = threads[k].relay /\ threads'[k].seen = threads[k].seen
<1> DEFINE new == [threads[i] EXCEPT !.status = "ACTIVE"]
<1>1. threads \in Seq(ThreadRow) /\ i \in 1..Len(threads) /\ threads[i] \in ThreadRow
  BY DEF ThreadsTyped, ThreadsTypeOK
<1>2. new \in ThreadRow
  BY <1>1 DEF ThreadRow
<1>3. threads' = [threads EXCEPT ![i] = new] /\ call' = call
  BY DEF Answered
<1>4. threads' \in Seq(ThreadRow) /\ Len(threads') = Len(threads)
  <2> HIDE DEF new
  <2> QED BY <1>1, <1>2, <1>3, ExceptSeq
<1>5. /\ new.tenant = threads[i].tenant /\ new.home = threads[i].home
      /\ new.relay = threads[i].relay /\ new.seen = threads[i].seen
  BY <1>1 DEF ThreadRow
<1> HIDE DEF new
<1>6. \A k \in DOMAIN threads : threads'[k] = IF k = i THEN new ELSE threads[k]
  BY <1>1, <1>3
<1> QED BY <1>1, <1>3, <1>4, <1>5, <1>6

\* Every step keeps the invariant.
LEMMA StepThreads == ASSUME ThreadsInv, [ThreadsNext]_threadVars PROVE ThreadsInv'
<1> USE DEF ThreadsInv
<1>1. ASSUME NEW i \in DOMAIN threads, Answered(i) PROVE ThreadsInv'
  <2>1. /\ threads' \in Seq(ThreadRow) /\ call' = call
        /\ Len(threads') = Len(threads) /\ DOMAIN threads' = DOMAIN threads
        /\ \A k \in DOMAIN threads :
              /\ threads'[k].tenant = threads[k].tenant /\ threads'[k].home = threads[k].home
              /\ threads'[k].relay = threads[k].relay /\ threads'[k].seen = threads[k].seen
    BY <1>1, AnswerThreads
  <2>2. ThreadsTyped'
    BY <2>1 DEF ThreadsTyped, ThreadsTypeOK
  <2>3. SeenInv'
    BY <2>1 DEF SeenInv, At
  <2>4. DuplicateNeedsOverlap'
    BY <2>1 DEF DuplicateNeedsOverlap
  <2> QED BY <2>2, <2>3, <2>4
<1>2. CASE UNCHANGED threadVars
  BY <1>2 DEF threadVars, ThreadsTyped, ThreadsTypeOK, SeenInv, DuplicateNeedsOverlap, At
<1>3. CASE ThreadsNext
  <2>1. ASSUME NEW r \in Slot, CreateThread(r) PROVE ThreadsInv'
    BY <2>1, InsertThreads
  <2>2. ASSUME NEW r \in Slot,
               \/ \E u \in Seeker, h \in Home : BeginStart(r, u, h)
               \/ AssignRelay(r) \/ PoolExhausted(r) \/ AbortStart(r)
        PROVE  ThreadsInv'
    BY <2>2, LookThreads
  <2> QED BY <1>1, <1>3, <2>1, <2>2 DEF ThreadsNext
<1> QED BY <1>2, <1>3

\* Rows and calls of starting conversations always have their shape.
THEOREM ThreadsTypeCorrect == ThreadsSpec => []ThreadsTypeOK
<1>1. ThreadsInit => ThreadsInv
  BY InitThreads
<1>2. ThreadsInv /\ [ThreadsNext]_threadVars => ThreadsInv'
  BY StepThreads
<1>3. ThreadsInv => ThreadsTypeOK
  BY DEF ThreadsInv, ThreadsTyped
<1> QED BY <1>1, <1>2, <1>3, PTL DEF ThreadsSpec

\* A tenant gets a second conversation about a property only when its start
\* looked before the first one was inserted.
THEOREM DuplicatesCorrect == ThreadsSpec => []DuplicateNeedsOverlap
<1>1. ThreadsInit => ThreadsInv
  BY InitThreads
<1>2. ThreadsInv /\ [ThreadsNext]_threadVars => ThreadsInv'
  BY StepThreads
<1>3. ThreadsInv => DuplicateNeedsOverlap
  BY DEF ThreadsInv
<1> QED BY <1>1, <1>2, <1>3, PTL DEF ThreadsSpec

-----------------------------------------------------------------------------
(* The pool's limit *)

\* The sets that PoolInv counts are finite.
LEMMA PoolFinite ==
    ASSUME ApiCallsAssumption, ThreadsTyped, NEW n \in Relay
    PROVE  /\ IsFiniteSet(Holders(n)) /\ Cardinality(Holders(n)) \in Nat
           /\ IsFiniteSet(Chosen(n)) /\ Cardinality(Chosen(n)) \in Nat
           /\ Cardinality(Chosen(n)) <= Cardinality(Slot)
           /\ Cardinality(Slot) \in Nat /\ Cardinality(Slot) >= 1
<1>1. IsFiniteSet(1..Len(threads)) /\ DOMAIN threads = 1..Len(threads) /\ Len(threads) \in Nat
  BY FS_Interval DEF ThreadsTyped, ThreadsTypeOK
<1>2. IsFiniteSet(Holders(n))
  BY <1>1, FS_Subset DEF Holders
<1>3. IsFiniteSet(Chosen(n)) /\ Cardinality(Chosen(n)) <= Cardinality(Slot)
  BY FS_Subset DEF Chosen, ApiCallsAssumption
<1>4. Cardinality(Slot) \in Nat /\ Cardinality(Slot) # 0
  BY FS_CardinalityType, FS_EmptySet DEF ApiCallsAssumption
<1> QED BY <1>2, <1>3, <1>4, FS_CardinalityType

\* A step that neither chooses nor assigns a number only frees claims.
LEMMA PoolRelief ==
    ASSUME ApiCallsAssumption, ConversationsAssumption, ThreadsTyped, ThreadsTyped', PoolInv,
           \A n \in Relay : Holders(n)' = Holders(n) /\ Chosen(n)' \subseteq Chosen(n)
    PROVE  PoolInv'
<1> SUFFICES ASSUME NEW n \in Relay
             PROVE  Cardinality(Holders(n)') + Cardinality(Chosen(n)') <= Capacity + Overlap
  BY DEF PoolInv, Overlap
<1>1. /\ IsFiniteSet(Holders(n)) /\ Cardinality(Holders(n)) \in Nat
      /\ IsFiniteSet(Chosen(n)) /\ Cardinality(Chosen(n)) \in Nat
      /\ Cardinality(Slot) \in Nat /\ Capacity \in Nat
  BY PoolFinite DEF ConversationsAssumption
<1>2. Cardinality(Chosen(n)') <= Cardinality(Chosen(n)) /\ IsFiniteSet(Chosen(n)')
  BY <1>1, FS_Subset
<1>3. Cardinality(Chosen(n)') \in Nat
  BY <1>2, FS_CardinalityType
<1>4. Holders(n)' = Holders(n)
  OBVIOUS
<1>5. Cardinality(Holders(n)) + Cardinality(Chosen(n)) <= Capacity + Overlap
  BY DEF PoolInv
<1> QED BY <1>1, <1>2, <1>3, <1>4, <1>5 DEF Overlap

\* Choosing a number: it was below its limit, and at most every call has chosen it.
LEMMA PoolChoice ==
    ASSUME ApiCallsAssumption, ConversationsAssumption, ThreadsTyped, ThreadsTyped', PoolInv,
           NEW r \in Slot, AssignRelay(r)
    PROVE  PoolInv'
<1>1. PICK m \in Available :
          call' = [call EXCEPT ![r] = [step |-> "createThread", tenant |-> call[r].tenant,
                                       home |-> call[r].home, seen |-> call[r].seen,
                                       relay |-> m]]
  BY DEF AssignRelay
<1>2. threads' = threads /\ r \in DOMAIN call /\ Capacity \in Nat
  BY DEF AssignRelay, ThreadsTyped, ConversationsAssumption
<1> SUFFICES ASSUME NEW n \in Relay
             PROVE  Cardinality(Holders(n)') + Cardinality(Chosen(n)') <= Capacity + Overlap
  BY DEF PoolInv, Overlap
<1>3. /\ IsFiniteSet(Holders(n)) /\ Cardinality(Holders(n)) \in Nat
      /\ IsFiniteSet(Chosen(n)) /\ Cardinality(Chosen(n)) \in Nat
      /\ Cardinality(Slot) \in Nat /\ Cardinality(Slot) >= 1
  BY PoolFinite
<1>4. Cardinality(Chosen(n)') \in Nat /\ Cardinality(Chosen(n)') <= Cardinality(Slot)
  BY PoolFinite, FS_Subset, FS_CardinalityType DEF Chosen, ApiCallsAssumption
<1>5. Holders(n)' = Holders(n)
  BY <1>2 DEF Holders
<1>6. CASE n = m
  <2>1. Cardinality(Holders(n)) < Capacity
    BY <1>1, <1>6 DEF Available, Assigned, Holders
  <2> QED BY <1>2, <1>3, <1>4, <1>5, <2>1 DEF Overlap
<1>7. CASE n # m
  <2>1. Chosen(n)' \subseteq Chosen(n)
    BY <1>1, <1>2, <1>7 DEF Chosen, At
  <2>2. Cardinality(Chosen(n)') <= Cardinality(Chosen(n))
    BY <1>3, <2>1, FS_Subset
  <2>3. Cardinality(Holders(n)) + Cardinality(Chosen(n)) <= Capacity + Overlap
    BY DEF PoolInv
  <2> QED BY <1>2, <1>3, <1>4, <1>5, <2>2, <2>3 DEF Overlap
<1> QED BY <1>6, <1>7

\* Assigning it: a claim becomes a row.
LEMMA PoolAssignment ==
    ASSUME ApiCallsAssumption, ConversationsAssumption, ThreadsTyped, ThreadsTyped', PoolInv,
           NEW r \in Slot, CreateThread(r)
    PROVE  PoolInv'
<1> DEFINE m == call[r].relay
<1>1. /\ threads \in Seq(ThreadRow) /\ Len(threads) \in Nat /\ r \in DOMAIN call
      /\ At(r, "createThread") /\ call' = [call EXCEPT ![r] = Free] /\ Capacity \in Nat
  BY DEF CreateThread, Return, ThreadsTyped, ThreadsTypeOK, ConversationsAssumption
<1>2. PICK row : threads' = Append(threads, row) /\ row.relay = m
  BY DEF CreateThread
<1>3. /\ DOMAIN threads' = DOMAIN threads \cup {Len(threads) + 1}
      /\ Len(threads) + 1 \notin DOMAIN threads
      /\ \A i \in DOMAIN threads : threads'[i] = threads[i]
      /\ threads'[Len(threads) + 1] = row
  BY <1>1, <1>2
<1> SUFFICES ASSUME NEW n \in Relay
             PROVE  Cardinality(Holders(n)') + Cardinality(Chosen(n)') <= Capacity + Overlap
  BY DEF PoolInv, Overlap
<1>4. /\ IsFiniteSet(Holders(n)) /\ Cardinality(Holders(n)) \in Nat
      /\ IsFiniteSet(Chosen(n)) /\ Cardinality(Chosen(n)) \in Nat
      /\ Cardinality(Slot) \in Nat
      /\ Cardinality(Holders(n)) + Cardinality(Chosen(n)) <= Capacity + Overlap
  BY PoolFinite DEF PoolInv
<1>5. CASE n = m
  <2>1. Holders(n)' = Holders(n) \cup {Len(threads) + 1} /\ Len(threads) + 1 \notin Holders(n)
    BY <1>2, <1>3, <1>5 DEF Holders
  <2>2. Chosen(n)' = Chosen(n) \ {r} /\ r \in Chosen(n)
    BY <1>1, <1>5 DEF Chosen, At, Free
  <2>3. Cardinality(Holders(n)') = Cardinality(Holders(n)) + 1
    BY <1>4, <2>1, FS_AddElement
  <2>4. Cardinality(Chosen(n)') = Cardinality(Chosen(n)) - 1
    BY <1>4, <2>2, FS_RemoveElement
  <2> QED BY <1>1, <1>4, <2>3, <2>4 DEF Overlap
<1>6. CASE n # m
  <2>1. Holders(n)' = Holders(n) /\ Chosen(n)' = Chosen(n)
    BY <1>1, <1>2, <1>3, <1>6 DEF Holders, Chosen, At, Free
  <2> QED BY <1>4, <2>1
<1> QED BY <1>5, <1>6

\* Every step keeps the pool within reach of its limit.
LEMMA PoolStep ==
    ASSUME ApiCallsAssumption, ConversationsAssumption, ThreadsTyped, ThreadsTyped', PoolInv,
           [ThreadsNext]_threadVars
    PROVE  PoolInv'
<1>1. ASSUME NEW r \in Slot, \/ \E u \in Seeker, h \in Home : BeginStart(r, u, h)
                             \/ PoolExhausted(r) \/ AbortStart(r)
      PROVE  PoolInv'
  <2>1. threads' = threads /\ r \in DOMAIN call
    BY <1>1 DEF BeginStart, PoolExhausted, AbortStart, ThreadsTyped
  <2>2. PICK c : c.step # "createThread" /\ call' = [call EXCEPT ![r] = c]
    BY <1>1 DEF BeginStart, PoolExhausted, AbortStart, Abort, Begin, Return, Free
  <2>3. \A n \in Relay : Holders(n)' = Holders(n) /\ Chosen(n)' \subseteq Chosen(n)
    BY <2>1, <2>2 DEF Holders, Chosen, At
  <2> QED BY <2>3, PoolRelief
<1>2. ASSUME NEW i \in DOMAIN threads, Answered(i) PROVE PoolInv'
  <2>1. /\ call' = call /\ DOMAIN threads' = DOMAIN threads
        /\ \A k \in DOMAIN threads : threads'[k].relay = threads[k].relay
    BY <1>2, AnswerThreads
  <2>2. \A n \in Relay : Holders(n)' = Holders(n) /\ Chosen(n)' \subseteq Chosen(n)
    BY <2>1 DEF Holders, Chosen, At
  <2> QED BY <2>2, PoolRelief
<1>3. CASE UNCHANGED threadVars
  <2>1. \A n \in Relay : Holders(n)' = Holders(n) /\ Chosen(n)' \subseteq Chosen(n)
    BY <1>3 DEF threadVars, Holders, Chosen, At
  <2> QED BY <2>1, PoolRelief
<1>4. ASSUME NEW r \in Slot, AssignRelay(r) PROVE PoolInv'
  BY <1>4, PoolChoice
<1>5. ASSUME NEW r \in Slot, CreateThread(r) PROVE PoolInv'
  BY <1>5, PoolAssignment
<1> QED BY <1>1, <1>2, <1>3, <1>4, <1>5 DEF ThreadsNext

\* An empty pool is in order.
LEMMA InitPool == ASSUME ThreadsInit PROVE PoolInv
<1>1. ThreadsInv
  BY InitThreads
<1>2. ASSUME NEW n \in Relay PROVE Holders(n) = {} /\ Chosen(n) = {}
  BY DEF ThreadsInit, NoCalls, Holders, Chosen, At, Free
<1>3. ASSUME NEW n \in Relay
      PROVE  Cardinality(Holders(n)) + Cardinality(Chosen(n)) <= Capacity + Overlap
  <2>1. Cardinality(Slot) \in Nat /\ Cardinality(Slot) >= 1 /\ Capacity \in Nat
    BY <1>1, PoolFinite, ApiCallsAssumption, ConversationsAssumption
       DEF ThreadsInv, ConversationsAssumption
  <2>2. Cardinality(Holders(n)) = 0 /\ Cardinality(Chosen(n)) = 0
    BY <1>2, FS_EmptySet
  <2> QED BY <2>1, <2>2 DEF Overlap
<1> QED BY <1>1, <1>3 DEF PoolInv

\* A pool in order has no number overrun by more than the overlap.
LEMMA PoolOverrun == ASSUME ThreadsInv, PoolInv PROVE OverrunNeedsOverlap
<1> SUFFICES ASSUME NEW n \in Relay PROVE Assigned(n) <= Capacity + Overlap
  BY DEF OverrunNeedsOverlap
<1>1. /\ Cardinality(Holders(n)) \in Nat /\ Cardinality(Chosen(n)) \in Nat
      /\ Cardinality(Slot) \in Nat /\ Capacity \in Nat
  BY PoolFinite, ApiCallsAssumption, ConversationsAssumption
     DEF ThreadsInv, ConversationsAssumption
<1>2. Cardinality(Holders(n)) + Cardinality(Chosen(n)) <= Capacity + Overlap
  BY DEF PoolInv
<1>3. Assigned(n) = Cardinality(Holders(n))
  BY DEF Assigned, Holders
<1> QED BY <1>1, <1>2, <1>3 DEF Overlap

\* Every step keeps both invariants.
LEMMA ThreadsPoolStep ==
    ASSUME ThreadsInv, PoolInv, [ThreadsNext]_threadVars PROVE ThreadsInv' /\ PoolInv'
<1>1. ThreadsInv'
  BY StepThreads
<1>2. ThreadsTyped /\ ThreadsTyped'
  BY <1>1 DEF ThreadsInv
<1> QED BY <1>1, <1>2, PoolStep, ApiCallsAssumption, ConversationsAssumption

\* A number is never overrun by more than the calls that can come between another
\* call's look at the pool and its insert.
THEOREM OverrunCorrect == ThreadsSpec => []OverrunNeedsOverlap
<1>1. ThreadsInit => ThreadsInv /\ PoolInv
  BY InitThreads, InitPool
<1>2. ThreadsInv /\ PoolInv /\ [ThreadsNext]_threadVars => ThreadsInv' /\ PoolInv'
  BY ThreadsPoolStep
<1>3. ThreadsInv /\ PoolInv => OverrunNeedsOverlap
  BY PoolOverrun
<1> QED BY <1>1, <1>2, <1>3, PTL DEF ThreadsSpec

=============================================================================

-------------------------- MODULE AuditChainProofs --------------------------
(* Proofs for the audit chain, for any digest and any numbers of households, *)
(* requests and connections.                                                 *)
EXTENDS AuditChain, FiniteSetTheorems, TLAPS

\* The initial states satisfy the inductive invariant.
LEMMA InitInv == Init => IInv
  <1> SUFFICES ASSUME Init PROVE IInv
    OBVIOUS
  <1> USE DEF Init, EventsOf
  <1>1. TypeOK
    BY DEF TypeOK, Labels, NoEvent
  <1>2. ChainVerifies /\ HasLast /\ AuditedOnce /\ NotYetAudited
    BY DEF ChainVerifies, VerifyAuditChain, HasLast, AuditedOnce, NotYetAudited
  <1>3. TailIsCurrent /\ ActionsAreAudited /\ LockHeld
    BY DEF TailIsCurrent, ActionsAreAudited, LockHeld
  <1>4. AuditorKnows
    BY FS_EmptySet DEF AuditorKnows, Given
  <1> QED
    BY <1>1, <1>2, <1>3, <1>4 DEF IInv

\* Steps of a request that leave the table alone keep what is said of it alone.
LEMMA TableFrame ==
    ASSUME IInv, UNCHANGED rows
    PROVE /\ ChainVerifies' /\ HasLast' /\ AuditedOnce'
          /\ \A h, t : IsTail(h, t)' <=> IsTail(h, t)
  BY DEF IInv, ChainVerifies, VerifyAuditChain, HasLast, AuditedOnce, EventsOf, IsTail

\* A step that moves one request before its append, or to its failure.
LEMMA WaitingStep ==
    ASSUME IInv, NEW q \in Requests,
           \/ RequireIdentityAuthorization(q) \/ Connect(q) \/ ConnectTimesOut(q)
    PROVE IInv'
  <1> USE DEF RequireIdentityAuthorization, Connect, ConnectTimesOut, chainVars,
              requestVars, auditorVars
  <1>0. /\ UNCHANGED <<rows, lock, home, seen, cursor>>
        /\ \A r \in Requests : after'[r] \in {after[r], cursor[home[r]]}
    BY DEF IInv, TypeOK
  <1>1. TypeOK'
    BY DEF IInv, TypeOK, Labels, Appending
  <1>2. TailIsCurrent' /\ LockHeld'
    BY TableFrame DEF IInv, TypeOK, TailIsCurrent, LockHeld
  <1>3. ActionsAreAudited' /\ NotYetAudited'
    BY DEF IInv, TypeOK, ActionsAreAudited, NotYetAudited, EventsOf, Appending
  <1>4. AuditorKnows'
    <2>1. \A h, n : Given(h, n)' <=> Given(h, n)
      BY <1>0 DEF Given, EventsOf
    <2>2. \A r \in Requests : Given(home[r], after'[r])
      BY <1>0 DEF IInv, TypeOK, AuditorKnows
    <2> QED
      BY <1>0, <2>1, <2>2 DEF IInv, AuditorKnows, EventsOf
  <1> QED
    BY <1>1, <1>2, <1>3, <1>4, TableFrame DEF IInv

\* Taking the lock: the request becomes the household's only one past it.
LEMMA LockStep ==
    ASSUME IInv, NEW q \in Requests, LockChain(q)
    PROVE IInv'
  <1> USE DEF LockChain, ChainFree, requestVars, auditorVars
  <1>1. TypeOK'
    BY DEF IInv, TypeOK, Labels, Appending
  <1>2. TailIsCurrent'
    BY TableFrame DEF IInv, TypeOK, TailIsCurrent
  <1>3. LockHeld'
    BY AuditAssumption DEF IInv, TypeOK, LockHeld
  <1>4. ActionsAreAudited' /\ NotYetAudited'
    BY DEF IInv, TypeOK, ActionsAreAudited, NotYetAudited, EventsOf, Appending
  <1>5. AuditorKnows'
    BY DEF IInv, AuditorKnows, Given, EventsOf
  <1> QED
    BY <1>1, <1>2, <1>3, <1>4, <1>5, TableFrame DEF IInv

\* Reading the end of the chain under the lock.
LEMMA TailStep ==
    ASSUME IInv, NEW q \in Requests, ReadTail(q)
    PROVE IInv'
  <1> USE DEF ReadTail, chainVars, auditorVars
  <1>1. TypeOK'
    BY DEF IInv, TypeOK, Labels, Appending, NoEvent
  <1>2. TailIsCurrent'
    BY TableFrame DEF IInv, TypeOK, TailIsCurrent
  <1>3. LockHeld'
    BY DEF IInv, TypeOK, LockHeld
  <1>4. ActionsAreAudited' /\ NotYetAudited'
    BY DEF IInv, TypeOK, ActionsAreAudited, NotYetAudited, EventsOf, Appending
  <1>5. AuditorKnows'
    BY DEF IInv, AuditorKnows, Given, EventsOf
  <1> QED
    BY <1>1, <1>2, <1>3, <1>4, <1>5, TableFrame DEF IInv

\* A failed append leaves no trace.
LEMMA FailStep ==
    ASSUME IInv, NEW q \in Requests, AppendFails(q)
    PROVE IInv'
  <1> USE DEF AppendFails, AfterFailure, Unlocked, Fault, requestVars, auditorVars
  <1>1. TypeOK'
    BY DEF IInv, TypeOK, Labels
  <1>2. TailIsCurrent'
    BY TableFrame DEF IInv, TypeOK, TailIsCurrent
  <1>3. LockHeld'
    BY DEF IInv, TypeOK, LockHeld
  <1>4. ActionsAreAudited' /\ NotYetAudited'
    BY DEF IInv, TypeOK, ActionsAreAudited, NotYetAudited, EventsOf, Appending
  <1>5. AuditorKnows'
    BY DEF IInv, AuditorKnows, Given, EventsOf
  <1> QED
    BY <1>1, <1>2, <1>3, <1>4, <1>5, TableFrame DEF IInv

\* A granted request acts.
LEMMA ActStep ==
    ASSUME IInv, NEW q \in Requests, Act(q)
    PROVE IInv'
  <1> USE DEF Act, chainVars, requestVars, auditorVars
  <1>1. TypeOK'
    BY DEF IInv, TypeOK, Labels
  <1>2. TailIsCurrent' /\ LockHeld'
    BY TableFrame DEF IInv, TypeOK, TailIsCurrent, LockHeld
  <1>3. ActionsAreAudited' /\ NotYetAudited'
    BY DEF IInv, TypeOK, ActionsAreAudited, NotYetAudited, EventsOf, Appending
  <1>4. AuditorKnows'
    BY DEF IInv, AuditorKnows, Given, EventsOf
  <1> QED
    BY <1>1, <1>2, <1>3, <1>4, TableFrame DEF IInv

\* What the inserted event is: the successor of the chain's end.
LEMMA Inserted ==
    ASSUME IInv, NEW q \in Requests, Append(q),
           NEW h, h = home[q], NEW x, x = NextEvent(q)
    PROVE /\ h \in Households
          /\ rows' = rows \cup {x}
          /\ x.household = h /\ x.request = q /\ x.outcome = outcome[q]
          /\ x.sequence \in Nat \ {0}
          /\ x.eventHash = Digest(h, x.sequence, <<x.request, x.outcome>>, x.previousHash)
          /\ \A e \in EventsOf(h) : e.sequence < x.sequence
          /\ IF x.sequence = 1 THEN x.previousHash = Genesis
             ELSE \E f \in EventsOf(h) : /\ x.sequence = f.sequence + 1
                                         /\ x.previousHash = f.eventHash
          /\ EventsOf(h)' = EventsOf(h) \cup {x}
          /\ \A g \in Households \ {h} : EventsOf(g)' = EventsOf(g)
          /\ \A r \in Requests : r # q /\ home[r] = h => pc[r] \notin {"tail", "insert"}
  <1>1. h \in Households /\ IsTail(h, tail[q]) /\ tail[q].sequence \in Nat
    BY DEF IInv, TypeOK, TailIsCurrent, Append
  <1>2. /\ x.household = h /\ x.request = q /\ x.outcome = outcome[q]
        /\ x.sequence = tail[q].sequence + 1 /\ x.previousHash = tail[q].hash
        /\ x.eventHash = Digest(h, x.sequence, <<x.request, x.outcome>>, x.previousHash)
    BY DEF NextEvent, CreateAuditEvent
  <1>3. x.sequence \in Nat \ {0}
    BY <1>1, <1>2
  <1>4. \A e \in EventsOf(h) : e.sequence \in Nat /\ e.sequence <= tail[q].sequence
    BY <1>1 DEF IsTail, IInv, TypeOK, EventsOf
  <1>5. rows' = rows \cup {x}
    BY <1>1, <1>4 DEF Append, SequenceFree
  <1>6. IF x.sequence = 1 THEN x.previousHash = Genesis
        ELSE \E f \in EventsOf(h) : /\ x.sequence = f.sequence + 1
                                    /\ x.previousHash = f.eventHash
    <2>1. CASE EventsOf(h) = {}
      BY <1>1, <1>2, <2>1 DEF IsTail, NoEvent
    <2>2. CASE EventsOf(h) # {}
      <3>1. PICK e \in EventsOf(h) : tail[q] = [sequence |-> e.sequence, hash |-> e.eventHash]
        BY <1>1, <2>2 DEF IsTail
      <3>2. e.sequence \in Nat \ {0}
        BY DEF IInv, TypeOK, EventsOf
      <3> QED
        BY <1>2, <3>1, <3>2
    <2> QED
      BY <2>1, <2>2
  <1>7. /\ EventsOf(h)' = EventsOf(h) \cup {x}
        /\ \A g \in Households \ {h} : EventsOf(g)' = EventsOf(g)
    BY <1>2, <1>5 DEF EventsOf, Append, requestVars
  <1>8. \A r \in Requests : r # q /\ home[r] = h => pc[r] \notin {"tail", "insert"}
    BY DEF IInv, LockHeld, Append
  <1>9. \A e \in EventsOf(h) : e.sequence < x.sequence
    BY <1>1, <1>2, <1>4
  <1> QED
    BY <1>1, <1>2, <1>3, <1>5, <1>6, <1>7, <1>8, <1>9

\* An append extends its household's chain by one event.
LEMMA AppendStep ==
    ASSUME IInv, NEW q \in Requests, Append(q)
    PROVE IInv'
  <1>h. PICK h : h = home[q]
    OBVIOUS
  <1>x. PICK x : x = NextEvent(q)
    OBVIOUS
  <1>0. /\ h \in Households
        /\ rows' = rows \cup {x}
        /\ x.household = h /\ x.request = q /\ x.outcome = outcome[q]
        /\ x.sequence \in Nat \ {0}
        /\ x.eventHash = Digest(h, x.sequence, <<x.request, x.outcome>>, x.previousHash)
        /\ \A e \in EventsOf(h) : e.sequence < x.sequence
        /\ IF x.sequence = 1 THEN x.previousHash = Genesis
           ELSE \E f \in EventsOf(h) : /\ x.sequence = f.sequence + 1
                                       /\ x.previousHash = f.eventHash
        /\ EventsOf(h)' = EventsOf(h) \cup {x}
        /\ \A g \in Households \ {h} : EventsOf(g)' = EventsOf(g)
        /\ \A r \in Requests : r # q /\ home[r] = h => pc[r] \notin {"tail", "insert"}
    BY <1>h, <1>x, Inserted
  <1>p. /\ pc[q] = "insert"
        /\ pc' \in [Requests -> Labels]
        /\ pc'[q] \in {"granted", "refused", "failed"}
        /\ pc'[q] = "granted" => outcome[q] = "allowed"
        /\ pc'[q] = "refused" => outcome[q] = "denied"
        /\ \A r \in Requests : r # q => pc'[r] = pc[r]
        /\ faults' \in Nat
        /\ UNCHANGED <<home, outcome, tail, after, acted, cursor, seen, finished>>
    BY DEF Append, AfterFailure, Fault, requestVars, auditorVars, IInv, TypeOK, Labels, Outcomes
  <1>t. outcome[q] \in Outcomes
    BY DEF IInv, TypeOK
  <1>1. TypeOK'
    <2>1. lock' \in [Households -> Requests \cup {None}]
      BY DEF Append, Unlocked, IInv, TypeOK
    <2>2. seen' \in [Households -> SUBSET rows']
      BY <1>0, <1>p DEF IInv, TypeOK
    <2> QED
      BY <1>0, <1>p, <1>t, <2>1, <2>2 DEF IInv, TypeOK
  <1>2. ChainVerifies'
    <2> SUFFICES ASSUME NEW g \in Households PROVE VerifyAuditChain(g)'
      BY DEF ChainVerifies
    <2>1. CASE g # h
      BY <1>0, <2>1 DEF IInv, ChainVerifies, VerifyAuditChain
    <2>2. CASE g = h
      <3>1. \A e, f \in EventsOf(h)' : e.sequence = f.sequence => e = f
        <4>1. \A e \in EventsOf(h) : e.sequence \in Nat
          BY DEF EventsOf, IInv, TypeOK
        <4> QED
          BY <1>0, <4>1 DEF IInv, ChainVerifies, VerifyAuditChain
      <3>2. ASSUME NEW e \in EventsOf(h)'
            PROVE /\ e.eventHash = Digest(h, e.sequence, <<e.request, e.outcome>>, e.previousHash)
                  /\ IF e.sequence = 1 THEN e.previousHash = Genesis
                     ELSE \E f \in EventsOf(h)' : /\ e.sequence = f.sequence + 1
                                                  /\ e.previousHash = f.eventHash
        <4>1. CASE e = x
          BY <1>0, <4>1
        <4>2. CASE e \in EventsOf(h)
          BY <1>0, <4>2 DEF IInv, ChainVerifies, VerifyAuditChain
        <4> QED
          BY <1>0, <3>2, <4>1, <4>2
      <3> QED
        BY <2>2, <3>1, <3>2 DEF VerifyAuditChain
    <2> QED
      BY <2>1, <2>2
  <1>3. TailIsCurrent'
    <2> SUFFICES ASSUME NEW r \in Requests, pc'[r] = "insert"
                 PROVE  IsTail(home[r], tail[r])'
      BY DEF TailIsCurrent
    <2>1. PICK g : g = home[r]
      OBVIOUS
    <2>2. r # q /\ pc[r] = "insert" /\ g \in Households /\ g # h
      BY <1>0, <1>h, <1>p, <2>1 DEF IInv, TypeOK
    <2>3. IsTail(g, tail[r]) /\ EventsOf(g)' = EventsOf(g)
      BY <1>0, <2>1, <2>2 DEF IInv, TailIsCurrent
    <2>4. home'[r] = g /\ tail'[r] = tail[r]
      BY <1>p, <2>1
    <2>5. EventsOf(home[r])' = EventsOf(g)
      BY <2>3, <2>4 DEF EventsOf
    <2> QED
      BY <2>3, <2>4, <2>5 DEF IsTail, NoEvent
  <1>4. ActionsAreAudited'
    <2> SUFFICES ASSUME NEW r \in Requests
                 PROVE  /\ r \in acted \/ pc'[r] \in {"granted", "done"} =>
                             \E e \in rows' : /\ e.household = home[r] /\ e.request = r
                                              /\ e.outcome = "allowed"
                        /\ pc'[r] = "refused" =>
                             \E e \in rows' : /\ e.household = home[r] /\ e.request = r
                                              /\ e.outcome = "denied"
      BY <1>p DEF ActionsAreAudited, EventsOf
    <2>1. CASE r # q
      BY <1>0, <1>p, <2>1 DEF IInv, ActionsAreAudited, EventsOf
    <2>2. CASE r = q
      BY <1>0, <1>h, <1>p, <2>2 DEF IInv, ActionsAreAudited, EventsOf
    <2> QED
      BY <2>1, <2>2
  <1>5. AuditedOnce' /\ NotYetAudited'
    <2>1. \A e \in rows : e.request # q
      BY <1>p DEF IInv, NotYetAudited, Appending
    <2> QED
      BY <1>0, <1>p, <2>1 DEF IInv, AuditedOnce, NotYetAudited, Appending
  <1>6. LockHeld'
    BY <1>0, <1>h, <1>p DEF IInv, TypeOK, LockHeld, Append, Unlocked
  <1>7. HasLast'
    <2> SUFFICES ASSUME NEW g \in Households, EventsOf(g)' # {}
                 PROVE  \E e \in EventsOf(g)' : \A f \in EventsOf(g)' : f.sequence <= e.sequence
      BY DEF HasLast
    <2>1. CASE g # h
      BY <1>0, <2>1 DEF IInv, HasLast
    <2>2. CASE g = h
      <3>1. \A e \in EventsOf(h) : e.sequence \in Nat
        BY DEF EventsOf, IInv, TypeOK
      <3> QED
        BY <1>0, <2>2, <3>1
    <2> QED
      BY <2>1, <2>2
  <1>8. AuditorKnows'
    <2>1. IsFiniteSet(rows')
      BY <1>0, FS_AddElement DEF IInv, AuditorKnows
    <2>2. ASSUME NEW g \in Households
          PROVE  /\ seen[g] \subseteq EventsOf(g)'
                 /\ \A n \in Nat : Given(g, n) => Given(g, n)'
      <3>1. CASE g # h
        BY <1>0, <1>p, <2>2, <3>1 DEF IInv, AuditorKnows, Given
      <3>2. CASE g = h
        <4>1. \A e \in EventsOf(h) : e.sequence \in Nat
          BY DEF EventsOf, IInv, TypeOK
        <4>2. seen[h] \subseteq EventsOf(h)
          BY <1>0 DEF IInv, AuditorKnows
        <4>3. ASSUME NEW n \in Nat, Given(h, n) PROVE Given(h, n)'
          <5>1. n < x.sequence
            BY <1>0, <4>1, <4>3 DEF Given
          <5> QED
            BY <1>0, <1>p, <4>1, <4>3, <5>1 DEF Given
        <4> QED
          BY <1>0, <3>2, <4>2, <4>3
      <3> QED
        BY <3>1, <3>2
    <2>3. \A g \in Households : cursor[g] \in Nat /\ Given(g, cursor[g])
      BY DEF IInv, TypeOK, AuditorKnows
    <2>4. \A r \in Requests : /\ after[r] \in Nat /\ home[r] \in Households
                               /\ Given(home[r], after[r])
      BY DEF IInv, TypeOK, AuditorKnows
    <2>5. \A g \in Households : Given(g, cursor[g])'
      BY <1>p, <2>2, <2>3 DEF Given
    <2>6. \A r \in Requests : Given(home[r], after[r])'
      BY <1>p, <2>2, <2>4 DEF Given, EventsOf
    <2> QED
      BY <1>p, <2>1, <2>2, <2>5, <2>6 DEF AuditorKnows
  <1> QED
    BY <1>1, <1>2, <1>3, <1>4, <1>5, <1>6, <1>7, <1>8 DEF IInv

\* A page holds every available event up to its last one.
LEMMA PageIsPrefix ==
    ASSUME IInv, NEW q \in Requests, NEW last \in Page(q),
           NEW e \in Available(q), e.sequence <= last.sequence
    PROVE e \in Page(q)
  <1> DEFINE Before(f) == {g \in Available(q) : g.sequence < f.sequence}
  <1>1. \A f \in Available(q) : f.sequence \in Nat
    BY DEF IInv, TypeOK, Available, EventsOf
  <1>2. Before(e) \subseteq Before(last)
    BY <1>1 DEF Page
  <1>3. IsFiniteSet(Before(last))
    <2>1. IsFiniteSet(rows) /\ Before(last) \subseteq rows
      BY DEF IInv, AuditorKnows, Available, EventsOf
    <2> QED
      BY <2>1, FS_Subset
  <1>4. /\ Cardinality(Before(e)) <= Cardinality(Before(last))
        /\ IsFiniteSet(Before(e))
    BY <1>2, <1>3, FS_Subset
  <1>5. Cardinality(Before(e)) \in Nat /\ Cardinality(Before(last)) \in Nat
    BY <1>3, <1>4, FS_CardinalityType
  <1>6. Cardinality(Before(last)) < PageLimit
    BY DEF Page
  <1> HIDE DEF Before
  <1>7. Cardinality(Before(e)) < PageLimit
    BY <1>4, <1>5, <1>6, AuditAssumption
  <1> QED
    BY <1>7 DEF Page, Before

\* What the auditor has after an answer: everything up to the answer's position,
\* and the whole chain when the page holds all that was available.
LEMMA PageExtends ==
    ASSUME IInv, NEW q \in Requests, NEW e \in EventsOf(home[q]),
           \/ Page(q) = Available(q)
           \/ \E last \in Page(q) : e.sequence <= last.sequence
    PROVE e \in seen[home[q]] \cup Page(q)
  <1>1. e.sequence <= after[q] => e \in seen[home[q]]
    BY DEF IInv, AuditorKnows, Given
  <1>2. after[q] \in Nat /\ e.sequence \in Nat
    BY DEF IInv, TypeOK, EventsOf
  <1>3. CASE e \in Available(q)
    BY <1>3, PageIsPrefix
  <1> QED
    BY <1>1, <1>2, <1>3 DEF Available

\* Giving the auditor a page.
LEMMA ReadStep ==
    ASSUME IInv, NEW q \in Requests, ReadVerified(q)
    PROVE IInv'
  <1>h. PICK h : h = home[q] /\ h \in Households
    BY DEF IInv, TypeOK
  <1>1. /\ Page(q) \subseteq EventsOf(h) /\ Page(q) \subseteq rows
        /\ \A e \in EventsOf(h) : e.sequence \in Nat
    BY <1>h DEF IInv, TypeOK, Page, Available, EventsOf
  <1>2. \/ cursor' = cursor
        \/ \E last \in Page(q) : cursor' = [cursor EXCEPT ![h] = last.sequence]
    BY <1>h DEF ReadVerified, NextSequence
  <1>3. /\ seen' = [seen EXCEPT ![h] = @ \cup Page(q)]
        /\ finished' \in {finished, finished \cup {h}}
        /\ pc[q] = "granted" /\ pc' = [pc EXCEPT ![q] = "done"]
        /\ UNCHANGED <<rows, lock, home, outcome, tail, after, acted, faults>>
    BY <1>h DEF ReadVerified, chainVars, requestVars
  <1>4. TypeOK'
    <2>1. cursor' \in [Households -> Nat]
      BY <1>1, <1>2 DEF IInv, TypeOK
    <2> QED
      BY <1>h, <1>1, <1>3, <2>1 DEF IInv, TypeOK, Labels
  <1>5. TailIsCurrent' /\ LockHeld'
    BY <1>3, TableFrame DEF IInv, TypeOK, TailIsCurrent, LockHeld
  <1>6. ActionsAreAudited' /\ NotYetAudited'
    BY <1>3 DEF IInv, TypeOK, ActionsAreAudited, NotYetAudited, EventsOf, Appending
  <1>7. AuditorKnows'
    <2>1. \A g : EventsOf(g)' = EventsOf(g)
      BY <1>3 DEF EventsOf
    <2>2. \A g \in Households : seen[g] \subseteq seen'[g] /\ seen'[g] \subseteq EventsOf(g)
      BY <1>h, <1>1, <1>3 DEF IInv, TypeOK, AuditorKnows
    <2>3. \A g \in Households, n \in Nat : Given(g, n) => Given(g, n)'
      BY <2>1, <2>2 DEF Given
    <2>4. ASSUME NEW last \in Page(q) PROVE Given(h, last.sequence)'
      <3>1. seen'[h] = seen[h] \cup Page(q)
        BY <1>h, <1>3 DEF IInv, TypeOK
      <3>2. \A e \in EventsOf(h) : e.sequence <= last.sequence => e \in seen[h] \cup Page(q)
        BY <1>h, PageExtends
      <3> QED
        BY <1>1, <2>1, <3>1, <3>2 DEF Given
    <2>5. ASSUME NEW g \in Households PROVE Given(g, cursor[g])'
      <3>1. PICK n, k : n = cursor[g] /\ k = cursor'[g]
        OBVIOUS
      <3>2. n \in Nat /\ Given(g, n)
        BY <3>1 DEF IInv, TypeOK, AuditorKnows
      <3>3. k = n \/ \E last \in Page(q) : g = h /\ k = last.sequence
        BY <1>2, <3>1 DEF IInv, TypeOK
      <3>4. Given(g, k)'
        BY <2>3, <2>4, <3>2, <3>3
      <3> QED
        BY <3>1, <3>4 DEF Given
    <2>6. \A r \in Requests : Given(home[r], after[r])'
      <3>1. \A r \in Requests : /\ home[r] \in Households /\ after[r] \in Nat
                                 /\ Given(home[r], after[r])
        BY DEF IInv, TypeOK, AuditorKnows
      <3> QED
        BY <1>3, <2>3, <3>1 DEF Given, EventsOf
    <2> QED
      BY <1>3, <2>1, <2>2, <2>5, <2>6 DEF IInv, AuditorKnows
  <1> QED
    BY <1>3, <1>4, <1>5, <1>6, <1>7, TableFrame DEF IInv

\* Every step keeps the inductive invariant.
LEMMA NextInv == IInv /\ [Next]_vars => IInv'
  <1> SUFFICES ASSUME IInv, [Next]_vars PROVE IInv'
    OBVIOUS
  <1>1. CASE UNCHANGED vars
    <2>1. TypeOK' /\ LockHeld' /\ NotYetAudited' /\ AuditorKnows'
      BY <1>1 DEF vars, IInv, TypeOK, LockHeld, NotYetAudited, AuditorKnows, Given, EventsOf
    <2>2. TailIsCurrent' /\ ActionsAreAudited'
      BY <1>1, TableFrame DEF vars, IInv, TailIsCurrent, ActionsAreAudited, EventsOf
    <2> QED
      BY <1>1, <2>1, <2>2, TableFrame DEF vars, IInv
  <1>2. CASE Next
    BY <1>2, WaitingStep, LockStep, TailStep, AppendStep, FailStep, ActStep, ReadStep
    DEF Next, RequestStep
  <1> QED
    BY <1>1, <1>2

\* The inductive invariant holds in every reachable state, for any number of
\* households, requests and connections, and any digest.
THEOREM InductiveInvariant == Spec => []IInv
  BY InitInv, NextInv, PTL DEF Spec

\* Every variable keeps the type the table and the store give it.
THEOREM TypeCorrect == Spec => []TypeOK
  <1>1. IInv => TypeOK
    BY DEF IInv
  <1> QED
    BY <1>1, InductiveInvariant, PTL

\* A household's chain verifies in every committed state: readVerified and
\* verify never report a failure the store has caused itself.
THEOREM ChainAlwaysVerifies == Spec => []ChainVerifies
  <1>1. IInv => ChainVerifies
    BY DEF IInv
  <1> QED
    BY <1>1, InductiveInvariant, PTL

\* The end of the chain that append has read is its end when it inserts, so that
\* the unique constraint on household and sequence is never hit.
THEOREM AppendsNeverConflict == Spec => []TailIsCurrent
  <1>1. IInv => TailIsCurrent
    BY DEF IInv
  <1> QED
    BY <1>1, InductiveInvariant, PTL

\* INV-005: no handler acts and no request is refused before its decision is in
\* the household's chain.
THEOREM EveryActionAudited == Spec => []ActionsAreAudited
  <1>1. IInv => ActionsAreAudited
    BY DEF IInv
  <1> QED
    BY <1>1, InductiveInvariant, PTL

\* A request has at most one event, whatever fails.
THEOREM OneEventPerRequest == Spec => []AuditedOnce
  <1>1. IInv => AuditedOnce
    BY DEF IInv
  <1> QED
    BY <1>1, InductiveInvariant, PTL

\* An auditor who is told that nothing follows has been given the whole chain.
THEOREM PagesAreComplete == Spec => PagesComplete
  <1>1. ASSUME IInv, Next
        PROVE  \A h \in finished' \ finished : seen'[h] = EventsOf(h)
    <2> SUFFICES ASSUME NEW h \in finished' \ finished PROVE seen'[h] = EventsOf(h)
      OBVIOUS
    <2>a. ASSUME NEW q \in Requests,
                 \/ RequireIdentityAuthorization(q) \/ Connect(q) \/ ConnectTimesOut(q)
                 \/ LockChain(q) \/ ReadTail(q) \/ Append(q) \/ AppendFails(q) \/ Act(q)
          PROVE  finished' = finished
      BY <2>a DEF RequireIdentityAuthorization, Connect, ConnectTimesOut, LockChain, ReadTail,
                  Append, AppendFails, Act, auditorVars
    <2>1. PICK q \in Requests : ReadVerified(q)
      BY <1>1, <2>a DEF Next, RequestStep
    <2>2. h = home[q] /\ h \in Households /\ Page(q) = Available(q)
      <3>1. home[q] \in Households
        BY <1>1 DEF IInv, TypeOK
      <3>2. h = home[q] /\ Page(q) = Available(q)
        BY <2>1 DEF ReadVerified
      <3> QED
        BY <3>1, <3>2
    <2>3. seen'[h] = seen[h] \cup Page(q)
      <3>1. DOMAIN seen = Households
        BY <1>1 DEF IInv, TypeOK
      <3>2. seen' = [seen EXCEPT ![h] = @ \cup Page(q)]
        BY <2>1, <2>2 DEF ReadVerified
      <3> QED
        BY <2>2, <3>1, <3>2
    <2>4. seen[h] \subseteq EventsOf(h) /\ Page(q) \subseteq EventsOf(h)
      BY <1>1, <2>2 DEF IInv, AuditorKnows, Page, Available
    <2>5. EventsOf(h) \subseteq seen[h] \cup Page(q)
      BY <1>1, <2>2, PageExtends
    <2> QED
      BY <2>3, <2>4, <2>5
  <1>2. IInv /\ [Next]_vars => [\A h \in finished' \ finished : seen'[h] = EventsOf(h)]_vars
    BY <1>1
  <1> QED
    BY <1>2, InductiveInvariant, PTL DEF Spec, PagesComplete

-----------------------------------------------------------------------------
(* Refinement of the abstract log                                          *)

\* A step of one request changes the answer of that request only.
LEMMA AnswerStep ==
    ASSUME IInv, NEW q \in Requests, NEW l, pc' = [pc EXCEPT ![q] = l]
    PROVE [r \in Requests |-> Answer(r)]' =
            [[r \in Requests |-> Answer(r)] EXCEPT ![q] = Answer(q)']
  <1>1. \A r \in Requests : r # q => Answer(r)' = Answer(r)
    BY DEF Answer, IInv, TypeOK
  <1> QED
    BY <1>1

\* Waiting, locking, reading the end and failing before the commit leave the log
\* alone; at most the request is told of an error.
LEMMA UnloggedStep ==
    ASSUME IInv, NEW q \in Requests,
           \/ RequireIdentityAuthorization(q) \/ Connect(q) \/ ConnectTimesOut(q)
           \/ LockChain(q) \/ ReadTail(q) \/ AppendFails(q)
    PROVE UNCHANGED Log!logVars \/ Log!Fail(q)
  <1>1. UNCHANGED <<rows, acted, seen, finished>>
    BY DEF RequireIdentityAuthorization, Connect, ConnectTimesOut, LockChain, ReadTail,
           AppendFails, chainVars, auditorVars
  <1>2. PICK l \in Labels : pc' = [pc EXCEPT ![q] = l]
    BY DEF RequireIdentityAuthorization, Connect, ConnectTimesOut, LockChain, ReadTail,
           AppendFails, AfterFailure, Labels, Appending
  <1>3. pc[q] \in Labels /\ pc'[q] = l
    BY <1>2 DEF IInv, TypeOK
  <1>4. \/ Answer(q)' = Answer(q)
        \/ Answer(q) \in {"none", "allowed"} /\ Answer(q)' = "error"
    BY <1>2, <1>3 DEF Answer, RequireIdentityAuthorization, Connect, ConnectTimesOut, LockChain,
           ReadTail, AppendFails, AfterFailure, Labels, Appending
  <1>5. [r \in Requests |-> Answer(r)]' =
          [[r \in Requests |-> Answer(r)] EXCEPT ![q] = Answer(q)']
    BY <1>2, AnswerStep
  <1>6. /\ EntriesIn(rows)' = EntriesIn(rows)
        /\ [h \in Households |-> EntriesIn(seen[h])]' = [h \in Households |-> EntriesIn(seen[h])]
    BY <1>1 DEF EntriesIn, Entry
  <1> QED
    BY <1>1, <1>4, <1>5, <1>6 DEF Log!logVars, Log!Fail

\* An append decides: its event is the next entry of its household.
LEMMA AppendDecides ==
    ASSUME IInv, NEW q \in Requests, Append(q)
    PROVE Log!Next
  <1>h. PICK h : h = home[q]
    OBVIOUS
  <1>x. PICK x : x = NextEvent(q)
    OBVIOUS
  <1>0. /\ h \in Households
        /\ rows' = rows \cup {x}
        /\ x.household = h /\ x.request = q /\ x.outcome = outcome[q]
        /\ x.sequence \in Nat \ {0}
        /\ x.eventHash = Digest(h, x.sequence, <<x.request, x.outcome>>, x.previousHash)
        /\ \A e \in EventsOf(h) : e.sequence < x.sequence
        /\ IF x.sequence = 1 THEN x.previousHash = Genesis
           ELSE \E f \in EventsOf(h) : /\ x.sequence = f.sequence + 1
                                       /\ x.previousHash = f.eventHash
        /\ EventsOf(h)' = EventsOf(h) \cup {x}
        /\ \A g \in Households \ {h} : EventsOf(g)' = EventsOf(g)
        /\ \A r \in Requests : r # q /\ home[r] = h => pc[r] \notin {"tail", "insert"}
    BY <1>h, <1>x, Inserted
  <1>1. PICK n \in Nat : n + 1 = x.sequence
    BY <1>0
  <1>2. /\ pc[q] = "insert" /\ UNCHANGED <<acted, seen, finished>>
        /\ SequenceFree(q)
    <2>1. IsTail(h, tail[q]) /\ tail[q].sequence \in Nat
      BY <1>h DEF IInv, TypeOK, TailIsCurrent, Append
    <2>2. \A e \in EventsOf(h) : e.sequence \in Nat
      BY DEF IInv, TypeOK, EventsOf
    <2>3. x.sequence = tail[q].sequence + 1
      BY <1>x DEF NextEvent, CreateAuditEvent
    <2> QED
      BY <1>h, <1>0, <2>1, <2>2, <2>3 DEF Append, auditorVars, SequenceFree
  <1>3. outcome[q] \in {"allowed", "denied"}
    BY DEF IInv, TypeOK, Outcomes
  <1>4. PICK l \in {"granted", "refused", "failed"} :
          /\ pc' = [pc EXCEPT ![q] = l]
          /\ l = "granted" => outcome[q] = "allowed"
          /\ l = "refused" => outcome[q] = "denied"
    BY <1>2, <1>3 DEF Append, AfterFailure
  <1>5. Answer(q) = "none" /\ Answer(q)' \in {outcome[q], "error"}
    <2>1. pc'[q] = l
      BY <1>4 DEF IInv, TypeOK
    <2> QED
      BY <1>2, <1>4, <2>1 DEF Answer
  <1>6. [r \in Requests |-> Answer(r)]' =
          [[r \in Requests |-> Answer(r)] EXCEPT ![q] = Answer(q)']
    BY <1>4, AnswerStep
  <1>7. /\ EntriesIn(rows)' = EntriesIn(rows) \cup
             {[household |-> h, position |-> n + 1, request |-> q, outcome |-> outcome[q]]}
        /\ [g \in Households |-> EntriesIn(seen[g])]' = [g \in Households |-> EntriesIn(seen[g])]
    BY <1>0, <1>1, <1>2 DEF EntriesIn, Entry
  <1>8. \A e \in EntriesIn(rows) : e.request # q
    BY <1>2 DEF EntriesIn, Entry, IInv, NotYetAudited, Appending
  <1>9. Log!EntriesOf(h) = EntriesIn(EventsOf(h))
    BY DEF Log!EntriesOf, EntriesIn, Entry, EventsOf
  <1>10. Log!Ends(h, n) /\ n \in {0} \cup {e.position : e \in EntriesIn(rows)}
    <2>1. \A e \in EventsOf(h) : e.sequence \in Nat /\ e.sequence <= n
      BY <1>0, <1>1 DEF EventsOf, IInv, TypeOK
    <2>2. n = 0 \/ \E f \in EventsOf(h) : f.sequence = n
      BY <1>0, <1>1, <2>1
    <2>3. n = 0 \/ \E e \in EntriesIn(EventsOf(h)) : e.position = n
      <3>1. \A f \in EventsOf(h) : Entry(f) \in EntriesIn(EventsOf(h)) /\ Entry(f).position = f.sequence
        BY DEF EntriesIn, Entry
      <3> QED
        BY <2>2, <3>1
    <2>4. \A e \in EntriesIn(EventsOf(h)) : e.position <= n
      BY <2>1 DEF EntriesIn, Entry
    <2>5. EntriesIn(EventsOf(h)) \subseteq EntriesIn(rows)
      BY DEF EntriesIn, EventsOf
    <2> QED
      BY <1>9, <2>3, <2>4, <2>5 DEF Log!Ends
  <1>11. Log!Decide(q, h, outcome[q], n)
    BY <1>2, <1>5, <1>6, <1>7, <1>8, <1>10 DEF Log!Decide
  <1> QED
    BY <1>0, <1>3, <1>10, <1>11 DEF Log!Next

\* A page gives the auditor entries of the log, and the last one all of them.
LEMMA PageReads ==
    ASSUME IInv, NEW q \in Requests, ReadVerified(q)
    PROVE Log!Next
  <1>h. PICK h : h = home[q]
    OBVIOUS
  <1>1. h \in Households /\ pc[q] = "granted" /\ Page(q) \subseteq EventsOf(h)
    BY <1>h DEF ReadVerified, IInv, TypeOK, Page, Available
  <1>2. /\ pc' = [pc EXCEPT ![q] = "done"]
        /\ seen' = [seen EXCEPT ![h] = @ \cup Page(q)]
        /\ UNCHANGED <<rows, acted>>
        /\ \/ UNCHANGED finished
           \/ Page(q) = Available(q) /\ finished' = finished \cup {h}
    BY <1>h DEF ReadVerified, chainVars
  <1>3. [r \in Requests |-> Answer(r)]' = [r \in Requests |-> Answer(r)]
    <2>1. Answer(q)' = Answer(q) /\ Answer(q) = "allowed"
      BY <1>1, <1>2 DEF Answer, IInv, TypeOK
    <2>2. [r \in Requests |-> Answer(r)]' =
            [[r \in Requests |-> Answer(r)] EXCEPT ![q] = Answer(q)']
      BY <1>2, AnswerStep
    <2> QED
      BY <2>1, <2>2
  <1>4. seen'[h] = seen[h] \cup Page(q) /\ seen[h] \subseteq EventsOf(h)
    BY <1>1, <1>2 DEF IInv, TypeOK, AuditorKnows
  <1>5. \A S, T : EntriesIn(S \cup T) = EntriesIn(S) \cup EntriesIn(T)
    BY DEF EntriesIn
  <1>6. /\ EntriesIn(rows)' = EntriesIn(rows)
        /\ [g \in Households |-> EntriesIn(seen[g])]' =
             [[g \in Households |-> EntriesIn(seen[g])]
                EXCEPT ![h] = EntriesIn(seen[h]) \cup EntriesIn(Page(q))]
    <2>1. \A g \in Households \ {h} : seen'[g] = seen[g]
      BY <1>1, <1>2 DEF IInv, TypeOK
    <2>2. EntriesIn(seen[h])' = EntriesIn(seen[h]) \cup EntriesIn(Page(q))
      <3>1. EntriesIn(seen'[h]) = EntriesIn(seen[h]) \cup EntriesIn(Page(q))
        BY <1>4, <1>5
      <3> QED
        BY <3>1 DEF EntriesIn, Entry
    <2>3. \A g \in Households \ {h} : EntriesIn(seen[g])' = EntriesIn(seen[g])
      BY <2>1 DEF EntriesIn, Entry
    <2> QED
      BY <1>2, <2>2, <2>3 DEF EntriesIn, Entry
  <1>7. Log!EntriesOf(h) = EntriesIn(EventsOf(h))
    BY DEF Log!EntriesOf, EntriesIn, Entry, EventsOf
  <1>8. EntriesIn(Page(q)) \subseteq EntriesIn(EventsOf(h))
    BY <1>1 DEF EntriesIn
  <1>9. \/ UNCHANGED finished
        \/ /\ finished' = finished \cup {h}
           /\ EntriesIn(seen[h]) \cup EntriesIn(Page(q)) = EntriesIn(EventsOf(h))
    <2> SUFFICES ASSUME Page(q) = Available(q), finished' = finished \cup {h}
                 PROVE  EntriesIn(seen[h]) \cup EntriesIn(Page(q)) = EntriesIn(EventsOf(h))
      BY <1>2
    <2>1. EventsOf(h) \subseteq seen[h] \cup Page(q)
      BY <1>h, PageExtends
    <2>2. EventsOf(h) = seen[h] \cup Page(q)
      BY <1>1, <1>4, <2>1
    <2> QED
      BY <1>5, <2>2
  <1>10. Answer(q) = "allowed"
    BY <1>1 DEF Answer
  <1>11. Log!Read(q, h, EntriesIn(Page(q)))
    BY <1>1, <1>2, <1>3, <1>6, <1>7, <1>8, <1>9, <1>10 DEF Log!Read
  <1> QED
    BY <1>1, <1>7, <1>8, <1>11 DEF Log!Next

\* The handler of an allowed request.
LEMMA HandlerActs ==
    ASSUME IInv, NEW q \in Requests, Act(q)
    PROVE Log!Act(q)
  <1>1. /\ pc[q] = "granted" /\ acted' = acted \cup {q}
        /\ pc' = [pc EXCEPT ![q] = "done"] /\ UNCHANGED <<rows, seen, finished>>
    BY DEF Act, chainVars, auditorVars
  <1>2. Answer(q)' = Answer(q) /\ Answer(q) = "allowed"
    BY <1>1 DEF Answer, IInv, TypeOK
  <1>3. [r \in Requests |-> Answer(r)]' =
          [[r \in Requests |-> Answer(r)] EXCEPT ![q] = Answer(q)']
    BY <1>1, AnswerStep
  <1>4. /\ EntriesIn(rows)' = EntriesIn(rows)
        /\ [h \in Households |-> EntriesIn(seen[h])]' = [h \in Households |-> EntriesIn(seen[h])]
    BY <1>1 DEF EntriesIn, Entry
  <1> QED
    BY <1>1, <1>2, <1>3, <1>4 DEF Log!Act

\* The audit store implements the abstract log, for any requests, households, pool,
\* page size, failures and digest.
THEOREM Refinement == Spec => ImplementsLog
  <1>1. Init => Log!Init
    BY DEF Init, Log!Init, Answer, EntriesIn
  <1>2. IInv /\ [Next]_vars => [Log!Next]_(Log!logVars)
    <2> SUFFICES ASSUME IInv, [Next]_vars
                 PROVE  Log!Next \/ UNCHANGED Log!logVars
      OBVIOUS
    <2>1. CASE UNCHANGED vars
      BY <2>1 DEF vars, Log!logVars, Answer, EntriesIn, Entry
    <2>2. \A q \in Requests : Log!Fail(q) \/ Log!Act(q) => Log!Next
      BY DEF Log!Next
    <2>3. CASE Next
      BY <2>2, <2>3, UnloggedStep, AppendDecides, PageReads, HandlerActs DEF Next, RequestStep
    <2> QED
      BY <2>1, <2>3
  <1> QED
    BY <1>1, <1>2, InductiveInvariant, PTL DEF Spec, ImplementsLog, Log!Spec

-----------------------------------------------------------------------------
(* Waiting                                                                   *)

\* A chain is locked by a request of its household that has a connection and waits for
\* nobody.
HolderIsLive ==
    \A h \in Households : lock[h] # None =>
        home[lock[h]] = h /\ pc[lock[h]] \in {"tail", "insert"}

\* A request that can go on towards its decision: the guards of Connect, LockChain,
\* ReadTail and Append.
GoesOn(q) ==
    \/ pc[q] = "connect" /\ PoolHasRoom
    \/ pc[q] = "lock" /\ ChainFree(home[q])
    \/ pc[q] = "tail" /\ \E t \in {NoEvent} \cup
            {[sequence |-> e.sequence, hash |-> e.eventHash] : e \in rows} : IsTail(home[q], t)
    \/ pc[q] = "insert"

\* Appends that wait for a chain keep their connections, and others wait for those: yet
\* as long as a decision is outstanding, one of them can go on.
NeverStuck ==
    (\E q \in Requests : pc[q] \in {"connect"} \cup Appending) => \E q \in Requests : GoesOn(q)

\* append gives its lock back with its transaction, however that ends.
LEMMA HolderStep == ASSUME IInv, HolderIsLive, [Next]_vars PROVE HolderIsLive'
  <1> USE DEF IInv, TypeOK, HolderIsLive
  <1>1. CASE UNCHANGED vars
    BY <1>1 DEF vars
  <1>2. ASSUME NEW q \in Requests, pc[q] \notin {"tail", "insert"},
               UNCHANGED <<lock, home>>, \A r \in Requests \ {q} : pc'[r] = pc[r]
        PROVE  HolderIsLive'
    BY <1>2
  <1>3. ASSUME NEW q \in Requests, lock' = Unlocked(q), UNCHANGED home,
               \A r \in Requests \ {q} : pc'[r] = pc[r]
        PROVE  HolderIsLive'
    BY <1>3 DEF Unlocked
  <1>4. ASSUME NEW q \in Requests,
               \/ RequireIdentityAuthorization(q) \/ Connect(q) \/ ConnectTimesOut(q)
               \/ Act(q) \/ ReadVerified(q)
        PROVE  HolderIsLive'
    BY <1>2, <1>4 DEF RequireIdentityAuthorization, Connect, ConnectTimesOut, Act, ReadVerified,
       chainVars, requestVars
  <1>5. ASSUME NEW q \in Requests, LockChain(q) PROVE HolderIsLive'
    BY <1>5 DEF LockChain, ChainFree, requestVars
  <1>6. ASSUME NEW q \in Requests, ReadTail(q) PROVE HolderIsLive'
    BY <1>6 DEF ReadTail, chainVars
  <1>7. ASSUME NEW q \in Requests, Append(q) \/ AppendFails(q) PROVE HolderIsLive'
    BY <1>3, <1>7 DEF Append, AppendFails, requestVars
  <1> QED
    BY <1>1, <1>4, <1>5, <1>6, <1>7 DEF Next, RequestStep

\* PostgresAuditStore.append with any number of requests over a pool of any size: a full
\* pool holds a request that waits for no other.
THEOREM AppendsNeverStuck == Spec => []NeverStuck
  <1>1. Init => HolderIsLive
    BY DEF Init, HolderIsLive
  <1>2. IInv /\ HolderIsLive /\ [Next]_vars => HolderIsLive'
    BY HolderStep
  <1>3. IInv /\ HolderIsLive => NeverStuck
    <2> SUFFICES ASSUME IInv, HolderIsLive, NEW q \in Requests,
                        pc[q] \in {"connect"} \cup Appending
                 PROVE  \E r \in Requests : GoesOn(r)
      BY DEF NeverStuck
    <2>1. ASSUME NEW r \in Requests, pc[r] \in {"tail", "insert"} PROVE GoesOn(r)
      <3>1. CASE pc[r] = "insert"
        BY <3>1 DEF GoesOn
      <3>2. CASE pc[r] = "tail" /\ EventsOf(home[r]) = {}
        BY <3>2 DEF GoesOn, IsTail
      <3>3. CASE pc[r] = "tail" /\ EventsOf(home[r]) # {}
        <4>1. PICK e \in EventsOf(home[r]) :
                 \A f \in EventsOf(home[r]) : f.sequence <= e.sequence
          BY <3>3 DEF IInv, TypeOK, HasLast
        <4>2. IsTail(home[r], [sequence |-> e.sequence, hash |-> e.eventHash])
          BY <3>3, <4>1 DEF IsTail
        <4>3. e \in rows
          BY DEF EventsOf
        <4> QED
          BY <3>3, <4>2, <4>3 DEF GoesOn
      <3> QED
        BY <2>1, <3>1, <3>2, <3>3
    <2>2. ASSUME NEW r \in Requests, pc[r] = "lock" PROVE \E p \in Requests : GoesOn(p)
      <3>1. CASE lock[home[r]] = None
        BY <2>2, <3>1 DEF GoesOn, ChainFree
      <3>2. CASE lock[home[r]] # None
        BY <2>1, <3>2 DEF HolderIsLive, IInv, TypeOK
      <3> QED
        BY <3>1, <3>2
    <2>3. CASE \A r \in Requests : pc[r] \notin Appending
      <3>1. {r \in Requests : pc[r] \in Appending} = {}
        BY <2>3
      <3>2. PoolHasRoom
        BY <3>1, FS_EmptySet, AuditAssumption DEF PoolHasRoom
      <3> QED
        BY <2>3, <3>2 DEF GoesOn
    <2> QED
      BY <2>1, <2>2, <2>3 DEF Appending
  <1> QED
    BY <1>1, <1>2, <1>3, InductiveInvariant, PTL DEF Spec

=============================================================================

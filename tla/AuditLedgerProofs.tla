-------------------------- MODULE AuditLedgerProofs --------------------------
(***************************************************************************)
(* Proofs about AuditLedger, for any number of entries, transactions and   *)
(* verifications and any clocks.  The key is that an append links to a row *)
(* with the largest clock it sees: if the link goes forward, the new entry *)
(* is past everything, and so the links alone tell whether clocks agreed.  *)
(***************************************************************************)
EXTENDS AuditLedger, FiniteSetTheorems, SequenceTheorems, TLAPS

\* Every step keeps the types and the finiteness of the sets of rows.
LEMMA TypeStep ==
    ASSUME TypeOK, RowsAreFinite, [Next]_vars
    PROVE  TypeOK' /\ RowsAreFinite'
<1> USE AuditLedgerAssumption
<1>1. ASSUME NEW w \in Writers, AcquireLock(w) PROVE TypeOK' /\ RowsAreFinite'
  BY <1>1 DEF AcquireLock, TypeOK, RowsAreFinite, rowVars, writerVars, checkpointVars, verifierVars
<1>2. ASSUME NEW w \in Writers, ReadClock(w) PROVE TypeOK' /\ RowsAreFinite'
  BY <1>2 DEF ReadClock, Visible, TypeOK, RowsAreFinite, rowVars, writerVars, checkpointVars, verifierVars
<1>3. ASSUME NEW w \in Writers, GetLatestHash(w) PROVE TypeOK' /\ RowsAreFinite'
  BY <1>3 DEF GetLatestHash, Visible, Latest, TypeOK, RowsAreFinite, rowVars, writerVars, checkpointVars, verifierVars
<1>4. ASSUME NEW w \in Writers, NEW e \in Entries, Insert(w, e) PROVE TypeOK' /\ RowsAreFinite'
  <2>1. TypeOK'
    BY <1>4 DEF Insert, Visible, Latest, TypeOK, rowVars, writerVars, checkpointVars, verifierVars
  <2>2. RowsAreFinite'
    <3>1. IsFiniteSet(pending[w] \cup {e})
      BY FS_AddElement DEF RowsAreFinite
    <3> QED  BY <1>4, <3>1 DEF Insert, RowsAreFinite, TypeOK
  <2> QED  BY <2>1, <2>2
<1>5. ASSUME NEW w \in Writers, Commit(w) PROVE TypeOK' /\ RowsAreFinite'
  <2>1. IsFiniteSet(committed \cup pending[w])
    BY FS_Union DEF RowsAreFinite
  <2>2. IsFiniteSet({})
    BY FS_EmptySet
  <2> QED  BY <1>5, <2>1, <2>2 DEF Commit, EndTransaction, TypeOK, RowsAreFinite, rowVars, writerVars, checkpointVars, verifierVars
<1>6. ASSUME NEW w \in Writers, Rollback(w) PROVE TypeOK' /\ RowsAreFinite'
  <2>1. IsFiniteSet({})
    BY FS_EmptySet
  <2> QED  BY <1>6, <2>1 DEF Rollback, EndTransaction, TypeOK, RowsAreFinite, rowVars, writerVars, checkpointVars, verifierVars
<1>7. ASSUME NEW v \in Verifiers, VerifyFullChain(v) PROVE TypeOK' /\ RowsAreFinite'
  BY <1>7 DEF VerifyFullChain, Start, TypeOK, RowsAreFinite, rowVars, writerVars, checkpointVars, verifierVars
<1>8. ASSUME NEW v \in Verifiers, VerifyChain(v) PROVE TypeOK' /\ RowsAreFinite'
  BY <1>8 DEF VerifyChain, Start, TypeOK, RowsAreFinite, rowVars, writerVars, checkpointVars, verifierVars
<1>9. ASSUME NEW v \in Verifiers, ReadRows(v) PROVE TypeOK' /\ RowsAreFinite'
  <2> DEFINE rows == {e \in committed : last[v] # None => createdAt[e] > createdAt[last[v]]}
  <2>1. Cardinality(rows) \in Nat
    BY FS_Subset, FS_CardinalityType DEF RowsAreFinite
  <2>2. rows \in SUBSET Entries
    BY DEF TypeOK
  <2> HIDE DEF rows
  <2>3. /\ todo' = [todo EXCEPT ![v] = rows]
        /\ base' = [base EXCEPT ![v] = @ + Cardinality(rows)]
        /\ vpc' = [vpc EXCEPT ![v] = "walk"]
        /\ UNCHANGED <<rowVars, writerVars, checkpointVars, full, last>>
    BY <1>9 DEF ReadRows, rows
  <2> QED  BY <2>1, <2>2, <2>3 DEF TypeOK, RowsAreFinite, rowVars, writerVars, checkpointVars, verifierVars
<1>10. ASSUME NEW v \in Verifiers, VisitRow(v) PROVE TypeOK' /\ RowsAreFinite'
  BY <1>10 DEF VisitRow, TypeOK, RowsAreFinite, rowVars, writerVars, checkpointVars, verifierVars
<1>11. ASSUME NEW v \in Verifiers, SaveCheckpoint(v) PROVE TypeOK' /\ RowsAreFinite'
  BY <1>11 DEF SaveCheckpoint, EndVerification, TypeOK, RowsAreFinite, rowVars, writerVars, checkpointVars, verifierVars
<1>12. ASSUME NEW v \in Verifiers, Leave(v) PROVE TypeOK' /\ RowsAreFinite'
  BY <1>12 DEF Leave, EndVerification, TypeOK, RowsAreFinite, rowVars, writerVars, checkpointVars, verifierVars
<1>13. CASE UNCHANGED vars
  BY <1>13 DEF TypeOK, RowsAreFinite, rowVars, writerVars, checkpointVars, verifierVars, vars
<1> QED  BY <1>1, <1>2, <1>3, <1>4, <1>5, <1>6, <1>7, <1>8, <1>9, <1>10, <1>11, <1>12, <1>13 DEF Next, WriterStep, VerifierStep

\* The initial state has the types, and finite sets of rows.
LEMMA TypeInit ==
    Init => TypeOK /\ RowsAreFinite
<1>1. IsFiniteSet({})
  BY FS_EmptySet
<1> QED  BY <1>1, AuditLedgerAssumption DEF Init, TypeOK, RowsAreFinite

\* The columns keep their types and a transaction that has begun is the one that
\* holds the advisory lock (appendEntryInternal), whatever the clocks do.
THEOREM TypeCorrect == Spec => []TypeOK
<1>1. TypeOK /\ RowsAreFinite /\ [Next]_vars => (TypeOK /\ RowsAreFinite)'
  BY TypeStep
<1> QED  BY TypeInit, <1>1, PTL DEF Spec

-----------------------------------------------------------------------------
(* The chain's predicates on a set S of rows with links p and clocks c. *)

RootedIn(S, p) ==
    /\ \A e \in S : p[e] \in S \cup {None}
    /\ \A e, f \in S : p[e] = None /\ p[f] = None => e = f

ForwardIn(S, p, c) == \A e \in S : p[e] # None => c[p[e]] < c[e]

LinkedIn(S, p, c) ==
    \A e \in S :
        IF p[e] = None THEN \A x \in S : c[e] <= c[x]
        ELSE /\ p[e] \in S /\ c[p[e]] < c[e]
             /\ \A x \in S : c[x] <= c[p[e]] \/ c[x] >= c[e]

DifferIn(S, c) == \A x, y \in S : c[x] = c[y] => x = y

\* Rows that keep their columns keep all of this.
LEMMA RowsKept ==
    ASSUME NEW S, NEW p, NEW q, NEW c, NEW d, RootedIn(S, p), None \notin S,
           \A x \in S : q[x] = p[x] /\ d[x] = c[x]
    PROVE  /\ RootedIn(S, q)
           /\ ForwardIn(S, q, d) <=> ForwardIn(S, p, c)
           /\ LinkedIn(S, q, d) <=> LinkedIn(S, p, c)
           /\ DifferIn(S, d) <=> DifferIn(S, c)
<1>1. RootedIn(S, q)
  BY DEF RootedIn
<1>2. ForwardIn(S, q, d) <=> ForwardIn(S, p, c)
  BY DEF RootedIn, ForwardIn
<1>3. LinkedIn(S, q, d) <=> LinkedIn(S, p, c)
  BY DEF RootedIn, LinkedIn
<1>4. DifferIn(S, d) <=> DifferIn(S, c)
  BY DEF DifferIn
<1> QED  BY <1>1, <1>2, <1>3, <1>4

\* A row linked to a latest one hangs together with the others; if that link goes
\* forward, the row is past all of them and continues their chain.
LEMMA RowAppended ==
    ASSUME NEW S, NEW p, NEW q, NEW c, NEW d, NEW e, RootedIn(S, p), None \notin S, e # None, e \notin S,
           \A x \in S : q[x] = p[x] /\ d[x] = c[x] /\ c[x] \in Nat, d[e] \in Nat,
           S = {} => q[e] = None,
           S # {} => q[e] \in S /\ \A x \in S : c[x] <= c[q[e]]
    PROVE  /\ RootedIn(S \cup {e}, q)
           /\ ForwardIn(S \cup {e}, q, d) =>
                /\ ForwardIn(S, p, c)
                /\ \A x \in S : d[x] < d[e]
                /\ LinkedIn(S, p, c) => LinkedIn(S \cup {e}, q, d)
                /\ DifferIn(S, c) => DifferIn(S \cup {e}, d)
<1>1. \A x \in S : q[x] # None => q[x] \in S
  BY DEF RootedIn
<1>2. RootedIn(S \cup {e}, q)
  BY DEF RootedIn
<1>3. ASSUME ForwardIn(S \cup {e}, q, d) PROVE ForwardIn(S, p, c) /\ \A x \in S : d[x] < d[e]
  <2>1. ForwardIn(S, p, c)
    BY <1>1, <1>3 DEF ForwardIn
  <2>2. ASSUME NEW x \in S PROVE d[x] < d[e]
    <3>1. q[e] \in S /\ q[e] # None /\ c[x] <= c[q[e]]
      OBVIOUS
    <3>2. d[q[e]] < d[e]
      BY <1>3, <3>1 DEF ForwardIn
    <3> QED  BY <3>1, <3>2
  <2> QED  BY <2>1, <2>2
<1>4. ASSUME ForwardIn(S \cup {e}, q, d), LinkedIn(S, p, c) PROVE LinkedIn(S \cup {e}, q, d)
  <2>0. \A x \in S : d[x] < d[e] /\ d[x] \in Nat
    BY <1>3, <1>4
  <2>1. ASSUME NEW x \in S, q[x] = None PROVE \A y \in S \cup {e} : d[x] <= d[y]
    BY <1>4, <2>0, <2>1 DEF LinkedIn
  <2>2. ASSUME NEW x \in S, q[x] # None
        PROVE  /\ q[x] \in S \cup {e} /\ d[q[x]] < d[x]
               /\ \A y \in S \cup {e} : d[y] <= d[q[x]] \/ d[y] >= d[x]
    <3>1. /\ q[x] = p[x] /\ p[x] \in S /\ c[p[x]] < c[x]
          /\ \A y \in S : c[y] <= c[p[x]] \/ c[y] >= c[x]
      BY <1>4, <2>2 DEF LinkedIn
    <3> QED  BY <2>0, <3>1
  <2>3. CASE S = {}
    BY <2>3 DEF LinkedIn
  <2>4. CASE S # {}
    <3>1. /\ q[e] \in S /\ q[e] # None /\ d[q[e]] < d[e]
          /\ \A y \in S \cup {e} : d[y] <= d[q[e]] \/ d[y] >= d[e]
      BY <2>0, <2>4
    <3> QED  BY <2>1, <2>2, <3>1 DEF LinkedIn
  <2> QED  BY <2>3, <2>4
<1>5. ASSUME ForwardIn(S \cup {e}, q, d), DifferIn(S, c) PROVE DifferIn(S \cup {e}, d)
  <2>0. \A x \in S : d[x] < d[e] /\ d[x] \in Nat
    BY <1>3, <1>5
  <2> QED  BY <1>5, <2>0 DEF DifferIn
<1> QED  BY <1>2, <1>3, <1>4, <1>5

-----------------------------------------------------------------------------

\* The part of the invariant about rows and transactions.
ChainInv ==
    /\ PendingIsOwn
    /\ VisibleIsRooted
    /\ VisibleIsLinear
    /\ ChainIsLinear
    /\ CommittedDiffer
    /\ AppendIsCurrent

\* What it says of the committed rows, and of those a transaction sees.
LEMMA ChainFacts ==
    ASSUME ChainInv
    PROVE  /\ RootedIn(committed, prev)
           /\ ForwardIn(committed, prev, createdAt) =>
                LinkedIn(committed, prev, createdAt) /\ DifferIn(committed, createdAt)
           /\ \A w \in Writers :
                /\ RootedIn(Visible(w), prev)
                /\ ForwardIn(Visible(w), prev, createdAt) =>
                    /\ LinkedIn(Visible(w), prev, createdAt) /\ DifferIn(Visible(w), createdAt)
                    /\ \A x \in committed, y \in pending[w] : createdAt[x] < createdAt[y]
<1> USE DEF ChainInv
<1>1. RootedIn(committed, prev)
  BY DEF ChainIsLinear, Rooted, RootedIn
<1>2. ForwardIn(committed, prev, createdAt) => LinkedIn(committed, prev, createdAt)
  BY DEF ChainIsLinear, ClocksAdvance, Forward, ForwardIn, Linked, LinkedIn, First, Precedes
<1>3. ForwardIn(committed, prev, createdAt) => DifferIn(committed, createdAt)
  BY DEF CommittedDiffer, ClocksAdvance, Forward, ForwardIn, ClocksDiffer, DifferIn
<1>4. ASSUME NEW w \in Writers PROVE RootedIn(Visible(w), prev)
  BY DEF VisibleIsRooted, Rooted, RootedIn
<1>5. ASSUME NEW w \in Writers, ForwardIn(Visible(w), prev, createdAt)
      PROVE  /\ LinkedIn(Visible(w), prev, createdAt) /\ DifferIn(Visible(w), createdAt)
             /\ \A x \in committed, y \in pending[w] : createdAt[x] < createdAt[y]
  <2>1. Forward(Visible(w))
    BY <1>5 DEF Forward, ForwardIn
  <2>2. Linked(Visible(w)) /\ ClocksDiffer(Visible(w))
        /\ \A x \in committed, y \in pending[w] : createdAt[x] < createdAt[y]
    BY <2>1 DEF VisibleIsLinear
  <2> QED  BY <2>2 DEF Linked, LinkedIn, First, Precedes, ClocksDiffer, DifferIn
<1> QED  BY <1>1, <1>2, <1>3, <1>4, <1>5

\* The same, the other way round.
LEMMA ChainIntro ==
    ASSUME PendingIsOwn, AppendIsCurrent,
           RootedIn(committed, prev),
           ForwardIn(committed, prev, createdAt) =>
                LinkedIn(committed, prev, createdAt) /\ DifferIn(committed, createdAt),
           \A w \in Writers :
                /\ RootedIn(Visible(w), prev)
                /\ ForwardIn(Visible(w), prev, createdAt) =>
                    /\ LinkedIn(Visible(w), prev, createdAt) /\ DifferIn(Visible(w), createdAt)
                    /\ \A x \in committed, y \in pending[w] : createdAt[x] < createdAt[y]
    PROVE  ChainInv
<1>1. Linked(committed) => ClocksAdvance
  BY DEF Linked, Precedes, ClocksAdvance, Forward
<1>2. ClocksAdvance => Linked(committed) /\ ClocksDiffer(committed)
  BY DEF ClocksAdvance, Forward, ForwardIn, Linked, LinkedIn, First, Precedes, ClocksDiffer, DifferIn
<1>3. Rooted(committed)
  BY DEF Rooted, RootedIn
<1>4. VisibleIsRooted
  BY DEF VisibleIsRooted, Rooted, RootedIn
<1>5. ASSUME NEW w \in Writers, Forward(Visible(w))
      PROVE  /\ Linked(Visible(w)) /\ ClocksDiffer(Visible(w))
             /\ \A x \in committed, y \in pending[w] : createdAt[x] < createdAt[y]
  <2>1. ForwardIn(Visible(w), prev, createdAt)
    BY <1>5 DEF Forward, ForwardIn
  <2> QED  BY <2>1 DEF Linked, LinkedIn, First, Precedes, ClocksDiffer, DifferIn
<1> QED  BY <1>1, <1>2, <1>3, <1>4, <1>5 DEF ChainInv, VisibleIsLinear, ChainIsLinear, CommittedDiffer

\* ChainInv by those predicates.
ChainParts ==
    /\ PendingIsOwn
    /\ AppendIsCurrent
    /\ RootedIn(committed, prev)
    /\ ForwardIn(committed, prev, createdAt) =>
        LinkedIn(committed, prev, createdAt) /\ DifferIn(committed, createdAt)
    /\ \A w \in Writers : RootedIn(committed \cup pending[w], prev)
    /\ \A w \in Writers : ForwardIn(committed \cup pending[w], prev, createdAt) =>
        /\ LinkedIn(committed \cup pending[w], prev, createdAt)
        /\ DifferIn(committed \cup pending[w], createdAt)
        /\ \A x \in committed, y \in pending[w] : createdAt[x] < createdAt[y]

\* It is enough to show the parts.
LEMMA PartsSuffice == ChainParts => ChainInv
  BY ChainIntro DEF ChainParts, Visible

\* The same of the next state.
LEMMA NextParts ==
    ASSUME PendingIsOwn', AppendIsCurrent',
           RootedIn(committed', prev'),
           ForwardIn(committed', prev', createdAt') =>
                LinkedIn(committed', prev', createdAt') /\ DifferIn(committed', createdAt'),
           \A w \in Writers :
                /\ RootedIn(committed' \cup pending'[w], prev')
                /\ ForwardIn(committed' \cup pending'[w], prev', createdAt') =>
                    /\ LinkedIn(committed' \cup pending'[w], prev', createdAt')
                    /\ DifferIn(committed' \cup pending'[w], createdAt')
                    /\ \A x \in committed', y \in pending'[w] : createdAt'[x] < createdAt'[y]
    PROVE  ChainInv'
<1>1. ChainParts' => ChainInv'
  BY PartsSuffice, PTL
<1>2. RootedIn(committed, prev)'
  BY DEF RootedIn
<1>3. (ForwardIn(committed, prev, createdAt) =>
        LinkedIn(committed, prev, createdAt) /\ DifferIn(committed, createdAt))'
  BY DEF ForwardIn, LinkedIn, DifferIn
<1>4. (\A w \in Writers : RootedIn(committed \cup pending[w], prev))'
  BY DEF RootedIn
<1>5. (\A w \in Writers : ForwardIn(committed \cup pending[w], prev, createdAt) =>
        /\ LinkedIn(committed \cup pending[w], prev, createdAt)
        /\ DifferIn(committed \cup pending[w], createdAt)
        /\ \A x \in committed, y \in pending[w] : createdAt[x] < createdAt[y])'
  BY DEF ForwardIn, LinkedIn, DifferIn
<1>6. ChainParts'
  BY <1>2, <1>3, <1>4, <1>5 DEF ChainParts
<1> QED  BY <1>1, <1>6

\* An append links the new entry to a latest one of those it sees.
LEMMA InsertStep ==
    ASSUME TypeOK, ChainInv, NEW w \in Writers, NEW e \in Entries, Insert(w, e)
    PROVE  ChainInv'
<1> USE AuditLedgerAssumption
<1> DEFINE S == committed \cup pending[w]
<1>1. /\ lock = w /\ e \notin S /\ S \subseteq Entries
      /\ committed' = committed /\ committed \subseteq S /\ lock' = lock
      /\ pending'[w] = pending[w] \cup {e}
      /\ \A x \in Writers : x # w => pending[x] = {} /\ pending'[x] = {}
      /\ \A x \in Writers : wpc'[x] # "insert"
  BY DEF Insert, TypeOK, ChainInv, PendingIsOwn
<1>2. /\ createdAt'[e] = stamp[w] /\ prev'[e] = head[w]
      /\ \A x \in S : prev'[x] = prev[x] /\ createdAt'[x] = createdAt[x] /\ createdAt[x] \in Nat
      /\ createdAt'[e] \in Nat /\ None \notin S /\ e # None
  BY <1>1 DEF Insert, TypeOK
<1>3. /\ S = {} => prev'[e] = None
      /\ S # {} => prev'[e] \in S /\ \A x \in S : createdAt[x] <= createdAt[prev'[e]]
  BY <1>2 DEF Insert, Latest, Visible
<1>4. PendingIsOwn'
  BY <1>1 DEF ChainInv, PendingIsOwn
<1>5. AppendIsCurrent'
  BY <1>1 DEF AppendIsCurrent
<1>6. /\ RootedIn(committed, prev)
      /\ ForwardIn(committed, prev, createdAt) =>
            LinkedIn(committed, prev, createdAt) /\ DifferIn(committed, createdAt)
      /\ RootedIn(S, prev)
      /\ ForwardIn(S, prev, createdAt) =>
            /\ LinkedIn(S, prev, createdAt) /\ DifferIn(S, createdAt)
            /\ \A x \in committed, y \in pending[w] : createdAt[x] < createdAt[y]
  BY ChainFacts DEF Visible
<1> HIDE DEF S
<1>7. /\ RootedIn(committed, prev')
      /\ ForwardIn(committed, prev', createdAt') =>
            LinkedIn(committed, prev', createdAt') /\ DifferIn(committed, createdAt')
  <2>1. None \notin committed /\ \A x \in committed : prev'[x] = prev[x] /\ createdAt'[x] = createdAt[x]
    BY <1>1, <1>2
  <2> QED  BY <1>6, <2>1, RowsKept
<1>8. /\ RootedIn(S \cup {e}, prev')
      /\ ForwardIn(S \cup {e}, prev', createdAt') =>
            /\ LinkedIn(S \cup {e}, prev', createdAt') /\ DifferIn(S \cup {e}, createdAt')
            /\ ForwardIn(S, prev, createdAt)
            /\ \A x \in S : createdAt'[x] < createdAt'[e]
  <2>1. /\ RootedIn(S, prev) /\ None \notin S /\ e # None /\ e \notin S
        /\ \A x \in S : prev'[x] = prev[x] /\ createdAt'[x] = createdAt[x] /\ createdAt[x] \in Nat
        /\ createdAt'[e] \in Nat
        /\ S = {} => prev'[e] = None
        /\ S # {} => prev'[e] \in S /\ \A x \in S : createdAt[x] <= createdAt[prev'[e]]
    BY <1>1, <1>2, <1>3, <1>6
  <2>2. /\ RootedIn(S \cup {e}, prev')
        /\ ForwardIn(S \cup {e}, prev', createdAt') =>
            /\ ForwardIn(S, prev, createdAt)
            /\ \A x \in S : createdAt'[x] < createdAt'[e]
            /\ LinkedIn(S, prev, createdAt) => LinkedIn(S \cup {e}, prev', createdAt')
            /\ DifferIn(S, createdAt) => DifferIn(S \cup {e}, createdAt')
    BY <2>1, RowAppended, Zenon
  <2> QED  BY <1>6, <2>2
<1>9. ForwardIn(S \cup {e}, prev', createdAt') =>
        \A x \in committed, y \in pending[w] \cup {e} : createdAt'[x] < createdAt'[y]
  BY <1>1, <1>2, <1>6, <1>8 DEF S
<1>10. \A x \in Writers :
        /\ RootedIn(committed' \cup pending'[x], prev')
        /\ ForwardIn(committed' \cup pending'[x], prev', createdAt') =>
            /\ LinkedIn(committed' \cup pending'[x], prev', createdAt')
            /\ DifferIn(committed' \cup pending'[x], createdAt')
            /\ \A y \in committed', z \in pending'[x] : createdAt'[y] < createdAt'[z]
  <2>1. ASSUME NEW x \in Writers, x # w PROVE pending'[x] = {} /\ committed' \cup pending'[x] = committed
    BY <1>1, <2>1
  <2>2. committed' \cup pending'[w] = S \cup {e} /\ committed' = committed /\ pending'[w] = pending[w] \cup {e}
    BY <1>1 DEF S
  <2>3. ASSUME NEW x \in Writers, x # w PROVE <1>10!(x)
    BY <1>7, <2>1, <2>3
  <2>4. <1>10!(w)
    BY <1>8, <1>9, <2>2
  <2> QED  BY <2>3, <2>4
<1> QED  BY <1>1, <1>4, <1>5, <1>7, <1>10, NextParts

\* A commit makes everybody see what its transaction saw.
LEMMA CommitStep ==
    ASSUME TypeOK, ChainInv, NEW w \in Writers, Commit(w)
    PROVE  ChainInv'
<1> USE AuditLedgerAssumption
<1> DEFINE S == Visible(w)
<1>1. /\ committed' = S
      /\ \A x \in Writers : pending'[x] = {} /\ committed' \cup pending'[x] = S /\ wpc'[x] = "idle"
      /\ createdAt' = createdAt /\ prev' = prev
  BY DEF Commit, EndTransaction, Visible, TypeOK, ChainInv, PendingIsOwn
<1>2. PendingIsOwn' /\ AppendIsCurrent'
  BY <1>1 DEF PendingIsOwn, AppendIsCurrent
<1>3. /\ RootedIn(S, prev)
      /\ ForwardIn(S, prev, createdAt) => LinkedIn(S, prev, createdAt) /\ DifferIn(S, createdAt)
  BY ChainFacts
<1> HIDE DEF S
<1> QED  BY <1>1, <1>2, <1>3, NextParts

\* A rollback leaves the committed chain.
LEMMA RollbackStep ==
    ASSUME TypeOK, ChainInv, NEW w \in Writers, Rollback(w)
    PROVE  ChainInv'
<1> USE AuditLedgerAssumption
<1>1. /\ committed' = committed
      /\ \A x \in Writers : pending'[x] = {} /\ committed' \cup pending'[x] = committed /\ wpc'[x] = "idle"
      /\ createdAt' = createdAt /\ prev' = prev
  BY DEF Rollback, EndTransaction, rowVars, Visible, TypeOK, ChainInv, PendingIsOwn
<1>2. PendingIsOwn' /\ AppendIsCurrent'
  BY <1>1 DEF PendingIsOwn, AppendIsCurrent
<1>3. /\ RootedIn(committed, prev)
      /\ ForwardIn(committed, prev, createdAt) =>
            LinkedIn(committed, prev, createdAt) /\ DifferIn(committed, createdAt)
  BY ChainFacts
<1> QED  BY <1>1, <1>2, <1>3, NextParts

\* Reading the clock and the head changes no row.
LEMMA ReadStep ==
    ASSUME TypeOK, ChainInv, NEW w \in Writers,
           AcquireLock(w) \/ ReadClock(w) \/ GetLatestHash(w)
    PROVE  ChainInv'
<1> USE AuditLedgerAssumption
<1>1. committed' = committed /\ createdAt' = createdAt /\ prev' = prev /\ pending' = pending
  BY DEF AcquireLock, ReadClock, GetLatestHash, rowVars
<1>2. PendingIsOwn'
  BY <1>1 DEF AcquireLock, ReadClock, GetLatestHash, ChainInv, PendingIsOwn, TypeOK
<1>3. AppendIsCurrent'
  BY <1>1 DEF AcquireLock, ReadClock, GetLatestHash, ChainInv, AppendIsCurrent, TypeOK, Visible, Latest
<1>4. VisibleIsRooted' /\ VisibleIsLinear' /\ ChainIsLinear' /\ CommittedDiffer'
  BY <1>1 DEF ChainInv, VisibleIsRooted, VisibleIsLinear, ChainIsLinear, CommittedDiffer, ClocksAdvance, Rooted,
     Forward, Linked, First, Precedes, ClocksDiffer, Visible
<1> QED  BY <1>2, <1>3, <1>4 DEF ChainInv

\* What changes neither rows nor transactions keeps the chain.
LEMMA ChainUnchanged ==
    ASSUME ChainInv, UNCHANGED <<rowVars, writerVars>>
    PROVE  ChainInv'
<1>1. UNCHANGED <<committed, createdAt, prev, lock, pending, wpc, stamp, head>>
  BY DEF rowVars, writerVars
<1>2. PendingIsOwn' /\ AppendIsCurrent'
  BY <1>1 DEF ChainInv, PendingIsOwn, AppendIsCurrent, Visible, Latest
<1>3. VisibleIsRooted' /\ VisibleIsLinear' /\ ChainIsLinear' /\ CommittedDiffer'
  BY <1>1 DEF ChainInv, VisibleIsRooted, VisibleIsLinear, ChainIsLinear, CommittedDiffer, ClocksAdvance, Rooted,
     Forward, Linked, First, Precedes, ClocksDiffer, Visible
<1> QED  BY <1>2, <1>3 DEF ChainInv

\* Every step keeps the chain.
LEMMA ChainStep ==
    ASSUME TypeOK, ChainInv, [Next]_vars
    PROVE  ChainInv'
<1>1. ASSUME NEW w \in Writers, WriterStep(w) PROVE ChainInv'
  BY <1>1, InsertStep, CommitStep, RollbackStep, ReadStep DEF WriterStep
<1>2. ASSUME NEW v \in Verifiers, VerifierStep(v) PROVE UNCHANGED <<rowVars, writerVars>>
  BY <1>2 DEF VerifierStep, VerifyFullChain, VerifyChain, Start, ReadRows, VisitRow, SaveCheckpoint, Leave
<1>3. CASE UNCHANGED vars
  BY <1>3, ChainUnchanged DEF vars
<1> QED  BY <1>1, <1>2, <1>3, ChainUnchanged DEF Next

\* Committed rows stay as they are; where the clocks agree after a step, they agreed
\* before it and the step has committed only later rows.
LEMMA RowsStep ==
    ASSUME TypeOK, ChainInv, [Next]_vars
    PROVE  /\ committed \subseteq committed'
           /\ \A x \in committed : createdAt'[x] = createdAt[x] /\ prev'[x] = prev[x]
           /\ ClocksAdvance' =>
                /\ ClocksAdvance
                /\ \A x \in committed, y \in committed' \ committed : createdAt'[x] < createdAt'[y]
<1> USE AuditLedgerAssumption
<1>1. ASSUME NEW w \in Writers, NEW e \in Entries, Insert(w, e)
      PROVE  committed' = committed /\ \A x \in committed : createdAt'[x] = createdAt[x] /\ prev'[x] = prev[x]
  BY <1>1 DEF Insert, TypeOK
<1>2. ASSUME NEW w \in Writers, Commit(w)
      PROVE  committed' = Visible(w) /\ createdAt' = createdAt /\ prev' = prev
  BY <1>2 DEF Commit, Visible
<1>3. ASSUME NEW w \in Writers, AcquireLock(w) \/ ReadClock(w) \/ GetLatestHash(w) \/ Rollback(w)
      PROVE  committed' = committed /\ createdAt' = createdAt /\ prev' = prev
  BY <1>3 DEF AcquireLock, ReadClock, GetLatestHash, Rollback, rowVars
<1>4. ASSUME NEW v \in Verifiers, VerifierStep(v)
      PROVE  committed' = committed /\ createdAt' = createdAt /\ prev' = prev
  BY <1>4 DEF VerifierStep, VerifyFullChain, VerifyChain, Start, ReadRows, VisitRow, SaveCheckpoint,
     Leave, rowVars
<1>5. UNCHANGED vars => committed' = committed /\ createdAt' = createdAt /\ prev' = prev
  BY DEF vars, rowVars
<1>6. CASE committed' = committed /\ \A x \in committed : createdAt'[x] = createdAt[x] /\ prev'[x] = prev[x]
  <2>1. \A x \in committed : prev[x] # None => prev[x] \in committed
    BY DEF ChainInv, ChainIsLinear, Rooted
  <2>2. ClocksAdvance' => ClocksAdvance
    BY <1>6, <2>1 DEF ClocksAdvance, Forward
  <2> QED  BY <1>6, <2>2
<1>7. ASSUME NEW w \in Writers, Commit(w)
      PROVE  /\ committed \subseteq committed'
             /\ \A x \in committed : createdAt'[x] = createdAt[x] /\ prev'[x] = prev[x]
             /\ ClocksAdvance' =>
                /\ ClocksAdvance
                /\ \A x \in committed, y \in committed' \ committed : createdAt'[x] < createdAt'[y]
  <2>1. /\ committed \subseteq Visible(w) /\ \A y \in Visible(w) : y \in committed \/ y \in pending[w]
    BY DEF Visible
  <2>2. ASSUME ClocksAdvance' PROVE Forward(Visible(w)) /\ ClocksAdvance
    BY <1>2, <1>7, <2>1, <2>2 DEF ClocksAdvance, Forward
  <2>3. Forward(Visible(w)) => \A x \in committed, y \in pending[w] : createdAt[x] < createdAt[y]
    BY DEF ChainInv, VisibleIsLinear
  <2> QED  BY <1>2, <1>7, <2>1, <2>2, <2>3
<1> QED  BY <1>1, <1>3, <1>4, <1>5, <1>6, <1>7 DEF Next, WriterStep

\* Later entries disturb neither the checkpoint nor a verification under way.
LEMMA LaterEntries ==
    ASSUME TypeOK, CheckInv, createdAt' \in [Entries -> Nat], committed' \subseteq Entries,
           UNCHANGED <<checkpointVars, verifierVars>>,
           committed \subseteq committed',
           \A x \in committed : createdAt'[x] = createdAt[x],
           \A x \in committed, y \in committed' : y \in committed \/ createdAt'[x] < createdAt'[y]
    PROVE  CheckInv'
<1> USE AuditLedgerAssumption
<1> DEFINE UpToN(x) == IF x = None THEN {} ELSE {e \in committed' : createdAt'[e] <= createdAt'[x]}
<1>1. ASSUME NEW x \in committed \cup {None} PROVE UpToN(x) = UpTo(x)
  <2>1. CASE x = None
    BY <2>1 DEF UpTo
  <2>2. CASE x \in committed /\ x # None
    <3>1. ASSUME NEW y PROVE (y \in committed' /\ createdAt'[y] <= createdAt'[x]) <=> (y \in committed /\ createdAt[y] <= createdAt[x])
      BY <2>2 DEF TypeOK
    <3> QED  BY <2>2, <3>1 DEF UpTo
  <2> QED  BY <2>1, <2>2
<1>2. UNCHANGED <<checkpoint, verified, vpc, full, last, base, todo>>
  BY DEF checkpointVars, verifierVars
<1>3. CheckpointIsCommitted' /\ CheckpointCounts'
  <2>1. UpTo(checkpoint)' = UpToN(checkpoint) /\ checkpoint \in committed \cup {None}
    BY <1>2 DEF CheckInv, CheckpointIsCommitted, UpTo
  <2> QED  BY <1>1, <1>2, <2>1 DEF CheckInv, CheckpointIsCommitted, CheckpointCounts
<1>4. WalkIsContiguous'
  <2>0. ASSUME NEW v \in Verifiers PROVE UpToN(last[v]) = UpTo(last[v]) /\ UpTo(last[v])' = UpToN(last[v])
    BY <1>1, <1>2 DEF CheckInv, WalkIsContiguous, UpTo
  <2> HIDE DEF UpToN
  <2>1. ASSUME NEW v \in Verifiers
        PROVE  /\ vpc[v] # "broken"
               /\ last[v] \in committed' \cup {None}
               /\ todo[v] \subseteq committed /\ todo[v] \subseteq committed'
               /\ vpc[v] \in {"idle", "rows"} => todo[v] = {}
               /\ vpc[v] = "rows" => base[v] = Cardinality(UpTo(last[v])')
               /\ vpc[v] = "walk" => base[v] = Cardinality(UpTo(last[v])') + Cardinality(todo[v])
               /\ \A e \in todo[v] : e \notin UpTo(last[v])'
    BY <2>0 DEF CheckInv, WalkIsContiguous
  <2>2. ASSUME NEW v \in Verifiers, NEW e \in todo[v], NEW x \in committed', createdAt'[x] < createdAt'[e]
        PROVE  x \in todo[v] \cup UpTo(last[v])'
    <3>1. x \in committed
      BY <2>1, <2>2 DEF TypeOK
    <3> QED  BY <2>0, <2>1, <2>2, <3>1 DEF CheckInv, WalkIsContiguous
  <2> QED  BY <1>2, <2>1, <2>2 DEF WalkIsContiguous
<1> QED  BY <1>3, <1>4 DEF CheckInv

\* One round of the loop: the first row left is linked to the last one visited,
\* and has exactly the entries up to that one before it.
LEMMA NextRow ==
    ASSUME TypeOK, RowsAreFinite, Linked(committed), ClocksDiffer(committed), CheckInv,
           NEW v \in Verifiers, NEW e \in todo[v],
           \A x \in todo[v] : createdAt[e] <= createdAt[x]
    PROVE  /\ prev[e] = last[v]
           /\ UpTo(e) = UpTo(last[v]) \cup {e}
           /\ Cardinality(UpTo(e)) = Cardinality(UpTo(last[v])) + 1
           /\ Cardinality(todo[v] \ {e}) = Cardinality(todo[v]) - 1
<1> USE AuditLedgerAssumption
<1>1. /\ e \in committed /\ e # None /\ e \notin UpTo(last[v]) /\ committed \subseteq Entries
      /\ last[v] \in committed \cup {None} /\ todo[v] \subseteq committed
      /\ \A x \in committed : createdAt[x] < createdAt[e] => x \in todo[v] \cup UpTo(last[v])
  BY DEF CheckInv, WalkIsContiguous, TypeOK
<1>2. createdAt \in [Entries -> Nat] /\ prev \in [Entries -> Entries \cup {None}]
  BY DEF TypeOK
<1>3. \A x, y \in committed : createdAt[x] = createdAt[y] => x = y
  BY DEF ClocksDiffer
<1>4. last[v] # None => last[v] \in UpTo(last[v]) /\ createdAt[last[v]] < createdAt[e]
  BY <1>1, <1>2 DEF UpTo
<1>5. \A x \in committed : createdAt[x] < createdAt[e] => x \in UpTo(last[v])
  BY <1>1, <1>2
<1>6. prev[e] = last[v]
  <2>1. CASE prev[e] = None
    <3>1. First(committed, e)
      BY <2>1, <1>1 DEF Linked
    <3> QED  BY <2>1, <3>1, <1>1, <1>2, <1>4 DEF First
  <2>2. CASE prev[e] # None
    <3>1. Precedes(committed, prev[e], e)
      BY <2>2, <1>1 DEF Linked
    <3>2. prev[e] \in UpTo(last[v])
      BY <3>1, <1>5 DEF Precedes
    <3>3. last[v] \in committed /\ createdAt[prev[e]] <= createdAt[last[v]]
      BY <3>2, <1>1 DEF UpTo
    <3>4. createdAt[last[v]] <= createdAt[prev[e]]
      BY <3>1, <3>3, <1>1, <1>2, <1>4 DEF Precedes
    <3> QED  BY <3>1, <3>3, <3>4, <1>1, <1>2, <1>3 DEF Precedes
  <2> QED  BY <2>1, <2>2
<1>7. UpTo(e) = UpTo(last[v]) \cup {e}
  <2>1. ASSUME NEW x \in UpTo(e) PROVE x \in UpTo(last[v]) \cup {e}
    BY <1>1, <1>2, <1>3, <1>5 DEF UpTo
  <2>2. ASSUME NEW x \in UpTo(last[v]) PROVE x \in UpTo(e)
    BY <1>1, <1>2, <1>4 DEF UpTo
  <2>3. e \in UpTo(e)
    BY <1>1, <1>2 DEF UpTo
  <2> QED  BY <2>1, <2>2, <2>3
<1>8. IsFiniteSet(UpTo(last[v])) /\ IsFiniteSet(todo[v])
  <2>1. UpTo(last[v]) \subseteq committed
    BY DEF UpTo
  <2> QED  BY <2>1, <1>1, FS_Subset DEF RowsAreFinite
<1>9. Cardinality(UpTo(e)) = Cardinality(UpTo(last[v])) + 1
  <2>1. \A U : IsFiniteSet(U) /\ e \notin U => Cardinality(U \cup {e}) = Cardinality(U) + 1
    BY FS_AddElement
  <2> QED  BY <2>1, <1>1, <1>7, <1>8
<1>10. Cardinality(todo[v] \ {e}) = Cardinality(todo[v]) - 1
  BY <1>8, FS_RemoveElement
<1> QED  BY <1>6, <1>7, <1>9, <1>10

\* The verifications' steps.
LEMMA VerifyStep ==
    ASSUME TypeOK, RowsAreFinite, Linked(committed), ClocksDiffer(committed), CheckInv,
           NEW v \in Verifiers, VerifierStep(v)
    PROVE  CheckInv'
<1> USE AuditLedgerAssumption
<1> DEFINE Contiguous(u) ==
            /\ vpc'[u] # "broken"
            /\ last'[u] \in committed \cup {None}
            /\ todo'[u] \subseteq committed
            /\ (vpc'[u] \in {"idle", "rows"} => todo'[u] = {}) /\ (vpc'[u] = "rows" => base'[u] = Cardinality(UpTo(last'[u])))
            /\ vpc'[u] = "walk" => base'[u] = Cardinality(UpTo(last'[u])) + Cardinality(todo'[u])
            /\ \A e \in todo'[u] :
                /\ e \notin UpTo(last'[u])
                /\ \A x \in committed : createdAt[x] < createdAt[e] => x \in todo'[u] \cup UpTo(last'[u])
<1>1. UNCHANGED <<committed, createdAt, prev>>
  BY DEF VerifierStep, VerifyFullChain, VerifyChain, Start, ReadRows, VisitRow, SaveCheckpoint, Leave, rowVars
<1>2. ASSUME NEW u \in Verifiers, u # v PROVE Contiguous(u)
  <2>1. vpc'[u] = vpc[u] /\ last'[u] = last[u] /\ base'[u] = base[u] /\ todo'[u] = todo[u]
    BY <1>2 DEF VerifierStep, VerifyFullChain, VerifyChain, Start, ReadRows, VisitRow, SaveCheckpoint, Leave, EndVerification, TypeOK
  <2> QED  BY <2>1 DEF CheckInv, WalkIsContiguous
<1>3. /\ last[v] \in committed \cup {None} /\ todo[v] \subseteq committed /\ vpc[v] # "broken"
      /\ (vpc[v] \in {"idle", "rows"} => todo[v] = {}) /\ (vpc[v] = "rows" => base[v] = Cardinality(UpTo(last[v])))
      /\ vpc[v] = "walk" => base[v] = Cardinality(UpTo(last[v])) + Cardinality(todo[v])
      /\ \A e \in todo[v] :
          /\ e \notin UpTo(last[v])
          /\ \A x \in committed : createdAt[x] < createdAt[e] => x \in todo[v] \cup UpTo(last[v])
  BY DEF CheckInv, WalkIsContiguous
<1>4. UpTo(None) = {} /\ Cardinality({}) = 0
  BY FS_EmptySet DEF UpTo
<1>10. ASSUME \A u \in Verifiers : Contiguous(u) PROVE WalkIsContiguous'
  BY <1>1, <1>10 DEF WalkIsContiguous, UpTo
<1>11. ASSUME checkpoint' \in committed \cup {None}, verified' = Cardinality(UpTo(checkpoint'))
       PROVE  CheckpointIsCommitted' /\ CheckpointCounts'
  BY <1>1, <1>11 DEF CheckpointIsCommitted, CheckpointCounts, UpTo
<1>12. ASSUME UNCHANGED <<checkpoint, verified>>
       PROVE  CheckpointIsCommitted' /\ CheckpointCounts'
  BY <1>1, <1>12 DEF CheckInv, CheckpointIsCommitted, CheckpointCounts, UpTo
<1> HIDE DEF Contiguous
<1>5. CASE VerifyFullChain(v) \/ VerifyChain(v)
  <2>1. todo[v] = {}
    BY <1>3, <1>5 DEF VerifyFullChain, VerifyChain, Start
  <2>2. Contiguous(v)
    <3>1. vpc'[v] = "rows" /\ todo'[v] = {}
      BY <1>5, <2>1 DEF VerifyFullChain, VerifyChain, Start, TypeOK
    <3>2. \/ last'[v] = None /\ base'[v] = 0
          \/ last'[v] = checkpoint /\ base'[v] = verified
      BY <1>5 DEF VerifyFullChain, VerifyChain, Start, TypeOK
    <3>3. last'[v] \in committed \cup {None} /\ base'[v] = Cardinality(UpTo(last'[v]))
      BY <3>2, <1>4, Zenon DEF CheckInv, CheckpointIsCommitted, CheckpointCounts
    <3> QED  BY <3>1, <3>3 DEF Contiguous
  <2>3. UNCHANGED <<checkpoint, verified>>
    BY <1>5 DEF VerifyFullChain, VerifyChain, Start, checkpointVars
  <2> QED  BY <1>2, <1>10, <1>12, <2>2, <2>3 DEF CheckInv
<1>6. CASE ReadRows(v)
  <2> DEFINE rows == {e \in committed : last[v] # None => createdAt[e] > createdAt[last[v]]}
  <2>1. /\ vpc'[v] = "walk" /\ last'[v] = last[v] /\ todo'[v] = rows /\ vpc[v] = "rows"
        /\ base'[v] = base[v] + Cardinality(rows)
    BY <1>6 DEF ReadRows, TypeOK
  <2>2. \A x \in committed : x \in UpTo(last[v]) <=> x \notin rows
    BY <1>3 DEF UpTo, TypeOK
  <2>3. Contiguous(v)
    BY <1>3, <2>1, <2>2 DEF Contiguous
  <2>4. UNCHANGED <<checkpoint, verified>>
    BY <1>6 DEF ReadRows, checkpointVars
  <2> QED  BY <1>2, <1>10, <1>12, <2>3, <2>4 DEF CheckInv
<1>7. CASE VisitRow(v)
  <2>1. PICK e \in todo[v] :
            /\ \A x \in todo[v] : createdAt[e] <= createdAt[x]
            /\ IF prev[e] = last[v]
               THEN /\ last' = [last EXCEPT ![v] = e]
                    /\ todo' = [todo EXCEPT ![v] = @ \ {e}]
                    /\ UNCHANGED vpc
               ELSE /\ vpc' = [vpc EXCEPT ![v] = "broken"]
                    /\ UNCHANGED <<last, todo>>
    BY <1>7 DEF VisitRow
  <2>2. /\ prev[e] = last[v]
        /\ UpTo(e) = UpTo(last[v]) \cup {e}
        /\ Cardinality(UpTo(e)) = Cardinality(UpTo(last[v])) + 1
        /\ Cardinality(todo[v] \ {e}) = Cardinality(todo[v]) - 1
    BY <2>1, NextRow
  <2>3. /\ last'[v] = e /\ todo'[v] = todo[v] \ {e} /\ vpc'[v] = "walk" /\ vpc[v] = "walk" /\ base'[v] = base[v]
    BY <1>7, <2>1, <2>2 DEF VisitRow, TypeOK
  <2>4. Cardinality(UpTo(last[v])) \in Nat /\ Cardinality(todo[v]) \in Nat
    <3>1. UpTo(last[v]) \subseteq committed
      BY DEF UpTo
    <3> QED  BY <3>1, <1>3, FS_Subset, FS_CardinalityType DEF RowsAreFinite
  <2>9. UpTo(last'[v]) = UpTo(e) /\ Cardinality(UpTo(last'[v])) = Cardinality(UpTo(e))
    BY <2>3, Zenon
  <2>5. base'[v] = Cardinality(UpTo(last'[v])) + Cardinality(todo'[v])
    BY <1>3, <2>2, <2>3, <2>4, <2>9
  <2>6. ASSUME NEW x \in todo'[v]
        PROVE  x \notin UpTo(last'[v]) /\ \A y \in committed : createdAt[y] < createdAt[x] => y \in todo'[v] \cup UpTo(last'[v])
    BY <1>3, <2>2, <2>3, <2>9
  <2>7. Contiguous(v)
    BY <1>3, <2>2, <2>3, <2>5, <2>6 DEF Contiguous
  <2>8. UNCHANGED <<checkpoint, verified>>
    BY <1>7 DEF VisitRow, checkpointVars
  <2> QED  BY <1>2, <1>10, <1>12, <2>7, <2>8 DEF CheckInv
<1>8. CASE SaveCheckpoint(v) \/ Leave(v)
  <2>1. vpc'[v] = "idle" /\ last'[v] = None /\ todo'[v] = {}
    BY <1>8 DEF SaveCheckpoint, Leave, EndVerification, TypeOK
  <2>2. Contiguous(v)
    BY <2>1 DEF Contiguous
  <2>3. /\ checkpoint' \in committed \cup {None}
        /\ verified' = Cardinality(UpTo(checkpoint'))
    <3>1. CASE Leave(v)
      BY <3>1 DEF Leave, checkpointVars, CheckInv, CheckpointIsCommitted, CheckpointCounts
    <3>2. CASE SaveCheckpoint(v)
      <4>1. Cardinality(UpTo(last[v])) \in Nat
        <5>1. UpTo(last[v]) \subseteq committed
          BY DEF UpTo
        <5> QED  BY <5>1, FS_Subset, FS_CardinalityType DEF RowsAreFinite
      <4> QED  BY <3>2, <4>1, <1>3, <1>4 DEF SaveCheckpoint
    <3> QED  BY <1>8, <3>1, <3>2
  <2> QED  BY <1>2, <1>10, <1>11, <2>2, <2>3 DEF CheckInv
<1> QED  BY <1>5, <1>6, <1>7, <1>8 DEF VerifierStep

\* Every step keeps checkpoint and verifications in order while the clocks agree.
LEMMA CheckStep ==
    ASSUME TypeOK, TypeOK', RowsAreFinite, ChainInv, ClocksAdvance => CheckInv, ClocksAdvance', [Next]_vars
    PROVE  CheckInv'
<1>1. /\ committed \subseteq committed' /\ CheckInv /\ Linked(committed) /\ ClocksDiffer(committed)
      /\ \A x \in committed : createdAt'[x] = createdAt[x]
      /\ \A x \in committed, y \in committed' : y \in committed \/ createdAt'[x] < createdAt'[y]
  BY RowsStep DEF ChainInv, ChainIsLinear, CommittedDiffer
<1>2. ASSUME UNCHANGED <<checkpointVars, verifierVars>> PROVE CheckInv'
  BY <1>1, <1>2, LaterEntries DEF TypeOK
<1>3. ASSUME NEW w \in Writers, WriterStep(w) PROVE UNCHANGED <<checkpointVars, verifierVars>>
  BY <1>3 DEF WriterStep, AcquireLock, ReadClock, GetLatestHash, Insert, Commit, Rollback
<1>4. UNCHANGED vars => UNCHANGED <<checkpointVars, verifierVars>>
  BY DEF vars
<1> QED  BY <1>1, <1>2, <1>3, <1>4, VerifyStep DEF Next

\* The empty ledger satisfies the invariant.
LEMMA AuditInit ==
    Init => AuditInv
<1> SUFFICES ASSUME Init PROVE AuditInv
  OBVIOUS
<1>1. TypeOK /\ RowsAreFinite
  BY TypeInit
<1>2. PendingIsOwn /\ AppendIsCurrent
  BY AuditLedgerAssumption DEF Init, PendingIsOwn, AppendIsCurrent
<1>3. VisibleIsRooted /\ VisibleIsLinear /\ ChainIsLinear /\ CommittedDiffer
  BY DEF Init, VisibleIsRooted, VisibleIsLinear, ChainIsLinear, CommittedDiffer, ClocksAdvance, Rooted, Forward,
     Linked, ClocksDiffer, Visible
<1>4. CheckpointIsCommitted /\ CheckpointCounts /\ WalkIsContiguous
  BY FS_EmptySet DEF Init, CheckpointIsCommitted, CheckpointCounts, WalkIsContiguous, UpTo
<1> QED  BY <1>1, <1>2, <1>3, <1>4 DEF AuditInv, CheckInv

\* The inductive invariant: what every transaction sees hangs together whatever the
\* clocks said; while its links go forward it is a chain, appends in flight extend it,
\* and every verification walks it without a gap.
THEOREM AuditInvariant == Spec => []AuditInv
<1>1. AuditInv /\ [Next]_vars => AuditInv'
  <2> SUFFICES ASSUME AuditInv, [Next]_vars PROVE AuditInv'
    OBVIOUS
  <2>1. TypeOK /\ RowsAreFinite /\ ChainInv /\ (ClocksAdvance => CheckInv)
    BY DEF AuditInv, ChainInv
  <2>2. TypeOK' /\ RowsAreFinite'
    BY <2>1, TypeStep
  <2>3. ChainInv'
    BY <2>1, ChainStep
  <2>4. ClocksAdvance' => CheckInv'
    BY <2>1, <2>2, CheckStep
  <2> QED  BY <2>2, <2>3, <2>4 DEF AuditInv, ChainInv
<1> QED  BY AuditInit, <1>1, PTL DEF Spec

\* Whatever the clocks of the appending processes say, the advisory lock and the trigger
\* leave one root and no dangling link, and the entries form one chain in created_at order
\* exactly as long as no entry's clock is at or before that of the entry it links to.
THEOREM ChainTheorem == Spec => []ChainIsLinear
<1>1. AuditInv => ChainIsLinear
  BY DEF AuditInv
<1> QED  BY AuditInvariant, <1>1, PTL

\* verifyChain and verifyFullChain report no untouched ledger as broken whose links all
\* go forward in created_at.
THEOREM NoFalseAlarmTheorem == Spec => []NoFalseAlarm
<1>1. AuditInv => NoFalseAlarm
  BY DEF AuditInv, CheckInv, WalkIsContiguous, NoFalseAlarm
<1> QED  BY AuditInvariant, <1>1, PTL

\* The checkpoint counts exactly the entries up to its own, however verifications race,
\* while all links go forward in created_at.
THEOREM CheckpointTheorem == Spec => []CheckpointCoversPrefix
<1>1. AuditInv => CheckpointCoversPrefix
  BY DEF AuditInv, CheckInv, CheckpointCoversPrefix
<1> QED  BY AuditInvariant, <1>1, PTL

-----------------------------------------------------------------------------
(* The refinement of AuditLog.  Read is a choice among the sorted enumerations of the   *)
(* committed entries: that there is one is an invariant (every append extends one), and *)
(* that two of them agree follows from the ranks of their entries.                      *)

\* s reads the set S in the order of the clocks c.
IsReading(s, S, c) ==
    /\ s \in [1 .. Cardinality(S) -> S]
    /\ \A i, j \in 1 .. Cardinality(S) : i < j => s[i] # s[j] /\ c[s[i]] <= c[s[j]]

\* The clocks of S tell its entries apart.
Clocks(S, c) ==
    /\ \A x \in S : c[x] \in Nat
    /\ \A x, y \in S : c[x] = c[y] => x = y

NotAfter(S, c, x) == {y \in S : c[y] <= c[x]}

\* A reading visits every entry, each as the one after exactly the entries read before it.
LEMMA ReadingRank ==
    ASSUME NEW S, NEW c, NEW s, IsFiniteSet(S), Clocks(S, c), IsReading(s, S, c),
           NEW i \in 1 .. Cardinality(S)
    PROVE  Cardinality(NotAfter(S, c, s[i])) = i
<1> DEFINE n == Cardinality(S)
           R == NotAfter(S, c, s[i])
           f == [k \in 1 .. i |-> s[k]]
<1>1. n \in Nat /\ IsFiniteSet(1 .. n) /\ Cardinality(1 .. n) = n
  BY FS_CardinalityType, FS_Interval
<1>2. s \in Injection(1 .. n, S)
  <2>1. s \in [1 .. n -> S]
    BY DEF IsReading
  <2>2. ASSUME NEW a \in 1 .. n, NEW b \in 1 .. n, s[a] = s[b] PROVE a = b
    BY <1>1, <2>2 DEF IsReading
  <2> QED
    BY <2>1, <2>2 DEF Injection, IsInjective
<1>3. s \in Surjection(1 .. n, S)
  BY <1>1, <1>2, FS_Injection
<1>4. f \in Injection(1 .. i, R)
  <2>1. ASSUME NEW k \in 1 .. i PROVE s[k] \in R
    <3>1. k \in 1 .. n /\ s[k] \in S /\ s[i] \in S
      BY <1>1 DEF IsReading
    <3>2. CASE k = i
      BY <3>1, <3>2 DEF NotAfter, Clocks
    <3>3. CASE k < i
      BY <1>1, <3>1, <3>3 DEF NotAfter, IsReading
    <3> QED
      BY <1>1, <3>2, <3>3
  <2>2. ASSUME NEW a \in 1 .. i, NEW b \in 1 .. i, s[a] = s[b] PROVE a = b
    BY <1>1, <1>2, <2>2 DEF Injection, IsInjective
  <2>3. f \in [1 .. i -> R]
    BY <2>1
  <2> QED
    BY <2>2, <2>3 DEF Injection, IsInjective
<1>5. f \in Surjection(1 .. i, R)
  <2>1. ASSUME NEW x \in R PROVE \E k \in 1 .. i : s[k] = x
    <3>1. x \in S /\ c[x] <= c[s[i]] /\ s[i] \in S
      BY <1>1 DEF NotAfter, IsReading
    <3>2. PICK k \in 1 .. n : s[k] = x
      BY <1>3, <3>1 DEF Surjection
    <3>3. ASSUME i < k PROVE FALSE
      BY <1>1, <3>1, <3>2, <3>3 DEF IsReading, Clocks
    <3> QED
      BY <1>1, <3>2, <3>3
  <2> QED
    BY <1>4, <2>1 DEF Injection, Surjection
<1>6. ExistsBijection(1 .. i, R)
  BY <1>4, <1>5 DEF ExistsBijection, Bijection
<1>7. IsFiniteSet(1 .. i) /\ Cardinality(1 .. i) = i
  BY <1>1, FS_Interval
<1> QED
  BY <1>6, <1>7, FS_Bijection

\* Entries of one rank are one entry.
LEMMA RankIsUnique ==
    ASSUME NEW S, NEW c, IsFiniteSet(S), Clocks(S, c), NEW x \in S, NEW y \in S,
           Cardinality(NotAfter(S, c, x)) = Cardinality(NotAfter(S, c, y))
    PROVE  x = y
<1>1. ASSUME NEW a \in S, NEW b \in S, c[a] < c[b],
             Cardinality(NotAfter(S, c, a)) = Cardinality(NotAfter(S, c, b))
      PROVE  FALSE
  <2>1. NotAfter(S, c, a) \in SUBSET NotAfter(S, c, b)
    BY <1>1 DEF NotAfter, Clocks
  <2>2. IsFiniteSet(NotAfter(S, c, b))
    BY FS_Subset DEF NotAfter
  <2>3. NotAfter(S, c, b) = NotAfter(S, c, a)
    BY <1>1, <2>1, <2>2, FS_Subset
  <2>4. b \in NotAfter(S, c, b) /\ b \notin NotAfter(S, c, a)
    BY <1>1 DEF NotAfter, Clocks
  <2> QED
    BY <2>3, <2>4
<1> QED
  BY <1>1 DEF Clocks

\* Where entries are added only after those of S, a reading of the larger set begins
\* with the reading of S.
LEMMA ReadingExtends ==
    ASSUME NEW S, NEW T, NEW c, NEW d, NEW s, NEW t,
           IsFiniteSet(T), S \subseteq T, Clocks(T, d), \A x \in S : d[x] = c[x],
           \A x \in S, y \in T \ S : d[x] < d[y],
           IsReading(s, S, c), IsReading(t, T, d)
    PROVE  /\ Cardinality(S) \in Nat /\ Cardinality(T) \in Nat /\ Cardinality(S) <= Cardinality(T)
           /\ Cardinality(S) = Cardinality(T) => S = T
           /\ \A i \in 1 .. Cardinality(S) : t[i] = s[i]
<1>1. IsFiniteSet(S) /\ Cardinality(S) <= Cardinality(T) /\ (Cardinality(S) = Cardinality(T) => S = T)
  BY FS_Subset
<1>2. Cardinality(S) \in Nat /\ Cardinality(T) \in Nat
  BY <1>1, FS_CardinalityType
<1>3. Clocks(S, c)
  BY DEF Clocks
<1>4. ASSUME NEW i \in 1 .. Cardinality(S) PROVE t[i] = s[i]
  <2>1. i \in 1 .. Cardinality(T) /\ s[i] \in S /\ s[i] \in T /\ t[i] \in T
    BY <1>1, <1>2 DEF IsReading
  <2>2. NotAfter(T, d, s[i]) = NotAfter(S, c, s[i])
    BY <2>1 DEF NotAfter, Clocks
  <2>3. Cardinality(NotAfter(S, c, s[i])) = i
    BY <1>1, <1>3, ReadingRank
  <2>4. Cardinality(NotAfter(T, d, t[i])) = i
    BY <2>1, ReadingRank
  <2> QED
    BY <2>1, <2>2, <2>3, <2>4, RankIsUnique
<1> QED
  BY <1>1, <1>2, <1>4

\* Reading goes on with an entry whose clock is past all others.
LEMMA ReadingAppends ==
    ASSUME NEW S, NEW c, NEW d, NEW s, NEW e, IsFiniteSet(S), e \notin S, IsReading(s, S, c),
           \A x \in S : d[x] = c[x] /\ d[x] <= d[e]
    PROVE  \E t : IsReading(t, S \cup {e}, d)
<1> DEFINE n == Cardinality(S)
           t == [i \in 1 .. n + 1 |-> IF i = n + 1 THEN e ELSE s[i]]
<1>1. n \in Nat /\ Cardinality(S \cup {e}) = n + 1
  BY FS_CardinalityType, FS_AddElement
<1>2. \A i \in 1 .. n + 1 : i # n + 1 => i \in 1 .. n /\ s[i] \in S
  BY <1>1 DEF IsReading
<1>3. t \in [1 .. n + 1 -> S \cup {e}]
  BY <1>2
<1>4. ASSUME NEW i \in 1 .. n + 1, NEW j \in 1 .. n + 1, i < j
      PROVE  t[i] # t[j] /\ d[t[i]] <= d[t[j]]
  <2>1. i \in 1 .. n /\ t[i] = s[i] /\ s[i] \in S
    BY <1>1, <1>2, <1>4
  <2>2. CASE j = n + 1
    BY <2>1, <2>2
  <2>3. CASE j # n + 1
    <3>1. j \in 1 .. n /\ t[j] = s[j] /\ s[j] \in S
      BY <1>2, <2>3
    <3> QED
      BY <1>4, <2>1, <3>1 DEF IsReading
  <2> QED
    BY <2>2, <2>3
<1>5. IsReading(t, S \cup {e}, d)
  BY <1>1, <1>3, <1>4 DEF IsReading
<1> QED
  BY <1>5

\* The committed entries, and those any transaction sees, can be read in order where
\* their links go forward.
Readable(S) == Forward(S) => \E s : IsReading(s, S, createdAt)

ReadingsExist == Readable(committed) /\ \A w \in Writers : Readable(committed \cup pending[w])

\* An append reads on from what its transaction saw; a commit and a rollback leave
\* everybody with a reading somebody had.
LEMMA ReadingStep ==
    ASSUME AuditInv, ReadingsExist, [Next]_vars
    PROVE  ReadingsExist'
<1> USE AuditLedgerAssumption
<1> DEFINE ReadableN(S) ==
            (\A e \in S : prev'[e] # None => createdAt'[prev'[e]] < createdAt'[e])
                => \E s : IsReading(s, S, createdAt')
<1>0. ASSUME ReadableN(committed'), \A x \in Writers : ReadableN(committed' \cup pending'[x]) PROVE ReadingsExist'
  BY <1>0 DEF ReadingsExist, Readable, Forward, IsReading
<1>1. ASSUME NEW w \in Writers, NEW e \in Entries, Insert(w, e) PROVE ReadingsExist'
  <2> DEFINE S == committed \cup pending[w]
  <2>1. /\ lock = w /\ e \notin S /\ S \subseteq Entries
        /\ committed' = committed /\ committed \subseteq S
        /\ committed' \cup pending'[w] = S \cup {e}
        /\ \A x \in Writers : x # w => committed' \cup pending'[x] = committed
    BY <1>1 DEF Insert, AuditInv, TypeOK, PendingIsOwn
  <2>2. /\ createdAt'[e] \in Nat /\ prev'[e] = head[w] /\ e # None /\ None \notin S
        /\ \A x \in S : createdAt'[x] = createdAt[x] /\ prev'[x] = prev[x] /\ createdAt[x] \in Nat
    BY <1>1, <2>1 DEF Insert, AuditInv, TypeOK
  <2>3. /\ S = {} => prev'[e] = None
        /\ S # {} => prev'[e] \in S /\ \A x \in S : createdAt[x] <= createdAt[prev'[e]]
    BY <1>1, <2>2 DEF Insert, Latest, Visible
  <2>4. IsFiniteSet(S)
    BY FS_Union DEF AuditInv, RowsAreFinite
  <2>5. RootedIn(S, prev) /\ RootedIn(committed, prev)
    BY DEF AuditInv, VisibleIsRooted, ChainIsLinear, Rooted, RootedIn, Visible
  <2>6. ReadableN(S \cup {e})
    <3> SUFFICES ASSUME ForwardIn(S \cup {e}, prev', createdAt') PROVE \E s : IsReading(s, S \cup {e}, createdAt')
      BY DEF ForwardIn
    <3> HIDE DEF S
    <3>1. ForwardIn(S, prev, createdAt) /\ \A x \in S : createdAt'[x] < createdAt'[e]
      <4>1. /\ RootedIn(S, prev) /\ None \notin S /\ e # None /\ e \notin S
            /\ \A x \in S : prev'[x] = prev[x] /\ createdAt'[x] = createdAt[x] /\ createdAt[x] \in Nat
            /\ createdAt'[e] \in Nat
            /\ S = {} => prev'[e] = None
            /\ S # {} => prev'[e] \in S /\ \A x \in S : createdAt[x] <= createdAt[prev'[e]]
        BY <2>1, <2>2, <2>3, <2>5
      <4>2. /\ RootedIn(S \cup {e}, prev')
            /\ ForwardIn(S \cup {e}, prev', createdAt') =>
                /\ ForwardIn(S, prev, createdAt)
                /\ \A x \in S : createdAt'[x] < createdAt'[e]
                /\ LinkedIn(S, prev, createdAt) => LinkedIn(S \cup {e}, prev', createdAt')
                /\ DifferIn(S, createdAt) => DifferIn(S \cup {e}, createdAt')
        BY <4>1, RowAppended, Zenon
      <4> QED  BY <4>2
    <3>2. PICK s : IsReading(s, S, createdAt)
      BY <3>1 DEF ReadingsExist, Readable, Forward, ForwardIn, S
    <3>3. \A x \in S : createdAt'[x] = createdAt[x] /\ createdAt'[x] <= createdAt'[e]
      BY <2>2, <3>1
    <3> QED
      BY <2>1, <2>4, <3>2, <3>3, ReadingAppends
  <2>7. ReadableN(committed)
    <3> SUFFICES ASSUME ForwardIn(committed, prev', createdAt') PROVE \E s : IsReading(s, committed, createdAt')
      BY DEF ForwardIn
    <3>1. \A x \in committed : prev'[x] = prev[x] /\ createdAt'[x] = createdAt[x]
      BY <2>1, <2>2
    <3>2. None \notin committed
      BY <2>1, <2>2
    <3>3. ForwardIn(committed, prev, createdAt)
      BY <2>5, <3>1, <3>2, RowsKept
    <3>4. PICK s : IsReading(s, committed, createdAt)
      BY <3>3 DEF ReadingsExist, Readable, Forward, ForwardIn
    <3>5. IsReading(s, committed, createdAt')
      BY <3>1, <3>4 DEF IsReading
    <3> QED
      BY <3>5
  <2> HIDE DEF ReadableN, S
  <2>8. \A x \in Writers : ReadableN(committed' \cup pending'[x])
    BY <2>1, <2>6, <2>7
  <2> QED
    BY <1>0, <2>1, <2>7, <2>8
<1>2. ASSUME NEW w \in Writers, Commit(w) PROVE ReadingsExist'
  <2>1. /\ committed' = committed \cup pending[w] /\ createdAt' = createdAt /\ prev' = prev
        /\ \A x \in Writers : committed' \cup pending'[x] = committed \cup pending[w]
    BY <1>2 DEF Commit, EndTransaction, AuditInv, TypeOK, PendingIsOwn
  <2> QED
    BY <1>0, <2>1 DEF ReadingsExist, Readable, Forward
<1>3. ASSUME NEW w \in Writers, Rollback(w) PROVE ReadingsExist'
  <2>1. /\ committed' = committed /\ createdAt' = createdAt /\ prev' = prev
        /\ \A x \in Writers : committed' \cup pending'[x] = committed
    BY <1>3 DEF Rollback, EndTransaction, rowVars, AuditInv, TypeOK, PendingIsOwn
  <2> QED
    BY <1>0, <2>1 DEF ReadingsExist, Readable, Forward
<1>4. CASE UNCHANGED <<committed, createdAt, prev, pending>>
  BY <1>0, <1>4 DEF ReadingsExist, Readable, Forward
<1>5. ASSUME NEW w \in Writers, AcquireLock(w) \/ ReadClock(w) \/ GetLatestHash(w)
      PROVE  UNCHANGED <<committed, createdAt, prev, pending>>
  BY <1>5 DEF AcquireLock, ReadClock, GetLatestHash, rowVars
<1>6. ASSUME NEW v \in Verifiers, VerifierStep(v) PROVE UNCHANGED <<committed, createdAt, prev, pending>>
  BY <1>6 DEF VerifierStep, VerifyFullChain, VerifyChain, Start, ReadRows, VisitRow, SaveCheckpoint, Leave,
     rowVars, writerVars
<1>7. UNCHANGED vars => UNCHANGED <<committed, createdAt, prev, pending>>
  BY DEF vars, rowVars, writerVars
<1> QED
  BY <1>1, <1>2, <1>3, <1>4, <1>5, <1>6, <1>7 DEF Next, WriterStep

\* What readers see is a reading.
LEMMA ReadIsReading == ReadingsExist /\ ClocksAdvance => IsReading(Read, committed, createdAt)
<1> SUFFICES ASSUME ReadingsExist, ClocksAdvance PROVE IsReading(Read, committed, createdAt)
  OBVIOUS
<1> DEFINE F == [1 .. Cardinality(committed) -> committed]
           P(s) == \A i, j \in DOMAIN s : i < j => s[i] # s[j] /\ createdAt[s[i]] <= createdAt[s[j]]
<1>1. \E s \in F : P(s)
  BY DEF ReadingsExist, Readable, ClocksAdvance, IsReading
<1>2. Read = CHOOSE s \in F : P(s)
  BY DEF Read
<1>3. Read \in F /\ P(Read)
  <2> HIDE DEF F, P
  <2> QED
    BY <1>1, <1>2
<1>4. DOMAIN Read = 1 .. Cardinality(committed)
  BY <1>3
<1> QED
  BY <1>3, <1>4 DEF IsReading

\* The same of the next state.
LEMMA NextRead == ReadingsExist' /\ ClocksAdvance' => IsReading(Read', committed', createdAt')
<1>1. (ReadingsExist /\ ClocksAdvance => IsReading(Read, committed, createdAt))'
  BY ReadIsReading, PTL
<1> QED
  BY <1>1 DEF IsReading

\* While the clocks agree, a step leaves the log as its readers saw it, or extends it.
LEMMA LogStep ==
    ASSUME AuditInv, AuditInv', ReadingsExist, ReadingsExist', ClocksAdvance', [Next]_vars
    PROVE  /\ ClocksAdvance
           /\ \/ Len(Read) < Len(Read') /\ SubSeq(Read', 1, Len(Read)) = Read
              \/ Read' = Read
<1> USE AuditLedgerAssumption
<1> DEFINE n == Cardinality(committed)
           m == Cardinality(committed')
<1>1. /\ committed \subseteq committed' /\ \A x \in committed : createdAt'[x] = createdAt[x]
      /\ \A x \in committed, y \in committed' \ committed : createdAt'[x] < createdAt'[y]
      /\ ClocksAdvance
  BY RowsStep DEF AuditInv, ChainInv
<1>2. IsFiniteSet(committed') /\ Clocks(committed', createdAt')
  BY DEF AuditInv, RowsAreFinite, TypeOK, CommittedDiffer, ClocksDiffer, Clocks
<1>3. IsReading(Read, committed, createdAt)
  BY <1>1, ReadIsReading
<1>4. IsReading(Read', committed', createdAt')
  BY NextRead
<1>5. /\ n \in Nat /\ m \in Nat /\ n <= m
      /\ n = m => committed = committed'
      /\ \A i \in 1 .. n : Read'[i] = Read[i]
  BY <1>1, <1>2, <1>3, <1>4, ReadingExtends
<1>6. /\ Read \in [1 .. n -> committed'] /\ Read' \in [1 .. m -> committed']
  BY <1>1, <1>3, <1>4 DEF IsReading
<1> HIDE DEF n, m
<1>7. /\ Read \in Seq(committed') /\ Len(Read) = n
      /\ Read' \in Seq(committed') /\ Len(Read') = m
  BY <1>5, <1>6
<1>8. CASE n = m
  BY <1>1, <1>5, <1>7, <1>8, SeqEqual
<1>9. CASE n < m
  <2>1. SubSeq(Read', 1, n) = Read
    <3>1. \A i \in 1 .. n : Read'[i] \in committed'
      BY <1>5, <1>6
    <3>2. /\ SubSeq(Read', 1, n) \in Seq(committed')
          /\ Len(SubSeq(Read', 1, n)) = IF 1 <= n THEN n - 1 + 1 ELSE 0
          /\ \A i \in 1 .. n - 1 + 1 : SubSeq(Read', 1, n)[i] = Read'[1 + i - 1]
      BY <1>5, <3>1, SubSeqProperties
    <3>3. /\ Len(SubSeq(Read', 1, n)) = n
          /\ \A i \in 1 .. n : SubSeq(Read', 1, n)[i] = Read'[i]
      BY <1>5, <3>2
    <3> QED
      BY <1>5, <1>7, <3>2, <3>3, SeqEqual
  <2> QED
    BY <1>1, <1>7, <1>9, <2>1
<1> QED
  BY <1>5, <1>8, <1>9

\* The ledger is an append-only log to everyone who reads it in order: no transaction,
\* however it interleaves with others or rolls back, changes or inserts before what was
\* already there, until one commits an entry whose clock is not past the entry it links to.
THEOREM LogTheorem == Spec => ImplementsLog
<1>1. Init => ReadingsExist /\ ClocksAdvance
  <2> SUFFICES ASSUME Init PROVE ReadingsExist /\ ClocksAdvance
    OBVIOUS
  <2>1. committed = {} /\ \A w \in Writers : committed \cup pending[w] = {}
    BY DEF Init
  <2>2. IsReading(<<>>, {}, createdAt)
    BY FS_EmptySet DEF IsReading
  <2> QED
    BY <2>1, <2>2 DEF ReadingsExist, Readable, ClocksAdvance, Forward
<1>2. AuditInv /\ ReadingsExist /\ [Next]_vars => ReadingsExist'
  BY ReadingStep
<1>3. Init => Log!Init
  <2> SUFFICES ASSUME Init PROVE Read = <<>> /\ ClocksAdvance = TRUE
    BY DEF Log!Init
  <2>1. IsReading(Read, {}, createdAt)
    BY <1>1, ReadIsReading DEF Init
  <2>2. ClocksAdvance = TRUE
    BY DEF Init, ClocksAdvance, Forward
  <2> QED
    BY <2>1, <2>2, FS_EmptySet DEF IsReading
<1>4. AuditInv /\ AuditInv' /\ ReadingsExist /\ ReadingsExist' /\ [Next]_vars
        => [Log!Extend \/ Log!Disorder]_<<Read, ClocksAdvance>>
  <2> SUFFICES ASSUME AuditInv, AuditInv', ReadingsExist, ReadingsExist', [Next]_vars
               PROVE  [Log!Extend \/ Log!Disorder]_<<Read, ClocksAdvance>>
    OBVIOUS
  <2>1. ClocksAdvance' \in BOOLEAN /\ ClocksAdvance \in BOOLEAN
    BY DEF ClocksAdvance, Forward
  <2>2. CASE ClocksAdvance'
    <3>1. ClocksAdvance = TRUE /\ ClocksAdvance' = TRUE
      BY <2>1, <2>2, LogStep
    <3>2. \/ Len(Read) < Len(Read') /\ SubSeq(Read', 1, Len(Read)) = Read
          \/ Read' = Read
      BY <2>2, LogStep
    <3> QED
      BY <3>1, <3>2 DEF Log!Extend
  <2>3. CASE ~ClocksAdvance'
    BY <2>1, <2>3 DEF Log!Disorder
  <2> QED
    BY <2>2, <2>3
<1> QED
  BY <1>1, <1>2, <1>3, <1>4, AuditInvariant, PTL DEF Spec, ImplementsLog, Log!Spec

=============================================================================

---------------------------- MODULE ProfilerProofs ----------------------------
(***************************************************************************)
(* For every depth, stack and clock: the profiler's variables keep their   *)
(* type, its depth is that of the server until it is lost, and until then  *)
(* it implements Meter.  Searches without a tag are why depth alone is not *)
(* inductive: emptyScript has to be set while one is on the stack, and no  *)
(* timed call may be there then.                                           *)
(***************************************************************************)
EXTENDS Profiler, FiniteSetTheorems, SequenceTheorems, TLAPS

Timed == OnStack("timed")
Tagless == OnStack("tagless")

Following ==
    /\ depth = Cardinality(Timed) - 1
    /\ emptyScript => Timed = {}
    /\ Tagless # {} => emptyScript

IInv == TypeOK /\ (~lost => Following)

USE ProfilerAssumption

-----------------------------------------------------------------------------
(* The stack.                                                              *)

\* A call of kind k adds its place to those of its kind, and to no other.
LEMMA Pushed ==
    ASSUME TypeOK, NEW c \in Call, stack' = Append(stack, c), NEW k
    PROVE  /\ stack' \in Seq(Call)
           /\ OnStack(k)' = IF c.kind = k THEN OnStack(k) \cup {Len(stack) + 1}
                                          ELSE OnStack(k)
           /\ Len(stack) + 1 \notin OnStack(k)
<1>1. stack \in Seq(Call) BY DEF TypeOK
<1>2. stack' \in Seq(Call) /\ Len(stack') = Len(stack) + 1 /\ Len(stack) \in Nat
  BY <1>1, AppendProperties
<1>3. /\ \A i \in 1 .. Len(stack) : stack'[i] = stack[i]
      /\ stack'[Len(stack) + 1] = c
  BY <1>1, AppendProperties
<1> QED BY <1>2, <1>3 DEF OnStack

\* A return takes the last place away.
LEMMA Popped ==
    ASSUME TypeOK, stack # <<>>, stack' = SubSeq(stack, 1, Len(stack) - 1), NEW k
    PROVE  /\ stack' \in Seq(Call)
           /\ stack[Len(stack)] \in Call
           /\ OnStack(k)' = OnStack(k) \ {Len(stack)}
           /\ Len(stack) \in OnStack(k) <=> stack[Len(stack)].kind = k
<1>1. stack \in Seq(Call) BY DEF TypeOK
<1>2. Len(stack) \in Nat \ {0} /\ stack[Len(stack)] \in Call
  <2>1. Len(stack) \in Nat \ {0} BY <1>1, EmptySeq
  <2> QED BY <1>1, <2>1, ElementOfSeq
<1>3. /\ stack' \in Seq(Call) /\ Len(stack') = Len(stack) - 1
      /\ \A i \in 1 .. Len(stack) - 1 : stack'[i] = stack[i]
  <2> DEFINE n == Len(stack) - 1
  <2>1. \A i \in 1 .. n : stack[i] \in Call BY <1>1, <1>2, ElementOfSeq
  <2>2. n \in Nat BY <1>2
  <2> HIDE DEF n
  <2>3. /\ SubSeq(stack, 1, n) \in Seq(Call)
        /\ Len(SubSeq(stack, 1, n)) = IF 1 <= n THEN n - 1 + 1 ELSE 0
        /\ \A i \in 1 .. n - 1 + 1 : SubSeq(stack, 1, n)[i] = stack[1 + i - 1]
    BY <2>1, <2>2, SubSeqProperties
  <2>4. stack' = SubSeq(stack, 1, n) BY <1>1 DEF n
  <2>5. Len(stack') = n /\ \A i \in 1 .. n : stack'[i] = stack[i] BY <2>2, <2>3, <2>4
  <2> QED BY <2>3, <2>4, <2>5 DEF n
<1>4. OnStack(k)' = OnStack(k) \ {Len(stack)}
  BY <1>2, <1>3 DEF OnStack
<1>5. Len(stack) \in OnStack(k) <=> stack[Len(stack)].kind = k
  BY <1>2 DEF OnStack
<1> QED BY <1>2, <1>4, <1>5, <1>3

LEMMA Finite ==
    ASSUME TypeOK, NEW k
    PROVE  IsFiniteSet(OnStack(k)) /\ Cardinality(OnStack(k)) \in Nat
<1>1. Len(stack) \in Nat BY DEF TypeOK
<1>2. IsFiniteSet(1 .. Len(stack)) BY <1>1, FS_Interval
<1>3. OnStack(k) \subseteq 1 .. Len(stack) BY DEF OnStack
<1> QED BY <1>2, <1>3, FS_Subset, FS_CardinalityType

LEMMA OneMore ==
    ASSUME NEW S, IsFiniteSet(S), NEW x, x \notin S
    PROVE  Cardinality(S \cup {x}) = Cardinality(S) + 1
BY FS_AddElement

LEMMA OneLess ==
    ASSUME NEW S, IsFiniteSet(S), NEW x \in S
    PROVE  Cardinality(S \ {x}) = Cardinality(S) - 1
BY FS_RemoveElement

-----------------------------------------------------------------------------
(* The type.                                                               *)

LEMMA InitType == Init => TypeOK
<1> SUFFICES ASSUME Init PROVE TypeOK OBVIOUS
<1>1. stack = <<>> /\ now = 0 /\ depth = -1 /\ counter = 0 /\ lastStatistic = 0 /\ updated = {}
  BY Zenon DEF Init
<1>2. emptyScript \in BOOLEAN /\ lost \in BOOLEAN BY Zenon DEF Init
<1>3. /\ DOMAIN names = Index /\ DOMAIN last = Index
      /\ calls = [n \in Accounts |-> 0] /\ elapsed = [n \in Accounts |-> 0]
  BY Zenon DEF Init
<1>4. stack \in Seq(Call) BY <1>1, EmptySeq
<1>5. calls \in [Accounts -> Nat] /\ elapsed \in [Accounts -> 0 .. Wrap - 1]
  BY <1>3
<1>6. \A i \in 0 .. depth : FALSE BY <1>1
<1>7. now \in 0 .. MaxTime /\ counter \in 0 .. MaxCalls /\ lastStatistic \in 0 .. now
  BY <1>1
<1>8. depth \in {-1} \cup Index /\ updated \subseteq Accounts BY <1>1
<1> QED BY <1>2, <1>3, <1>4, <1>5, <1>6, <1>7, <1>8, Zenon DEF TypeOK

LEMMA ChargeType ==
    ASSUME TypeOK, NEW n \in Accounts, NEW d \in Nat, Charge(n, d), UNCHANGED now
    PROVE  /\ calls' \in [Accounts -> Nat]
           /\ elapsed' \in [Accounts -> 0 .. Wrap - 1]
           /\ updated' \subseteq Accounts
           /\ lastStatistic' \in 0 .. now'
<1>1. (elapsed[n] + d) % Wrap \in 0 .. Wrap - 1 BY DEF TypeOK
<1>2. calls[n] + 1 \in Nat BY DEF TypeOK
<1>3. calls' \in [Accounts -> Nat] BY <1>2 DEF TypeOK, Charge
<1>4. elapsed' \in [Accounts -> 0 .. Wrap - 1] BY <1>1 DEF TypeOK, Charge
<1>5. updated' \subseteq Accounts /\ lastStatistic' \in 0 .. now'
  BY DEF TypeOK, Charge, FlushWhenDue
<1> QED BY <1>3, <1>4, <1>5

LEMMA EnterType ==
    ASSUME TypeOK, NEW n \in Accounts, Enter(n)
    PROVE  TypeOK'
<1> DEFINE c == [kind |-> "timed", name |-> n, start |-> now]
<1>1. c \in Call /\ stack' = Append(stack, c) BY DEF Call, TypeOK, Enter
<1>2. stack' \in Seq(Call) BY <1>1, Pushed
<1>3. depth' \in Index /\ depth' <= depth + 1 /\ \A i \in 0 .. depth' : i # depth' => i <= depth
  BY DEF Enter, StartTimer, TypeOK, Index
<1>4. DOMAIN names' = Index /\ DOMAIN last' = Index
  BY DEF Enter, StartTimer, TypeOK
<1>5. names'[depth'] = n /\ last'[depth'] = now
  BY <1>3 DEF Enter, StartTimer, TypeOK
<1>6. \A i \in 0 .. depth' : i # depth' => names'[i] = names[i] /\ last'[i] = last[i]
  BY <1>3 DEF Enter, StartTimer, TypeOK, Index
<1>7. \A i \in 0 .. depth' : names'[i] \in Accounts /\ last'[i] \in 0 .. now'
  <2> TAKE i \in 0 .. depth'
  <2>1. CASE i = depth' BY <2>1, <1>5 DEF Enter, TypeOK
  <2>2. CASE i # depth'
    <3>1. i \in 0 .. depth BY <2>2, <1>3 DEF Index, TypeOK
    <3> QED BY <3>1, <2>2, <1>6 DEF Enter, TypeOK
  <2> QED BY <2>1, <2>2
<1>8. emptyScript' \in BOOLEAN /\ counter' \in 0 .. MaxCalls /\ now' \in 0 .. MaxTime
  <2>1. emptyScript' \in BOOLEAN BY Zenon DEF Enter, StartTimer
  <2>2. counter < MaxCalls /\ counter' = counter + 1 /\ now' = now BY Zenon DEF Enter
  <2> QED BY <2>1, <2>2 DEF TypeOK
<1>9. lost' \in BOOLEAN BY DEF Enter, StartTimer, TypeOK
<1>10. /\ calls' \in [Accounts -> Nat] /\ elapsed' \in [Accounts -> 0 .. Wrap - 1]
       /\ updated' \subseteq Accounts /\ lastStatistic' \in 0 .. now'
  BY DEF Enter, hashVars, TypeOK
<1> QED BY <1>2, <1>3, <1>4, <1>7, <1>8, <1>9, <1>10 DEF TypeOK

LEMMA LeaveType ==
    ASSUME TypeOK, Leave
    PROVE  TypeOK'
<1>1. stack' \in Seq(Call) BY Popped DEF Leave
<1>2. UNCHANGED <<now, names, last, emptyScript, counter, lost>> BY DEF Leave
<1>3. /\ depth' \in {-1} \cup Index /\ depth' <= depth
      /\ calls' \in [Accounts -> Nat] /\ elapsed' \in [Accounts -> 0 .. Wrap - 1]
      /\ updated' \subseteq Accounts /\ lastStatistic' \in 0 .. now'
  <2>1. CASE UNCHANGED <<depth, hashVars>> BY <2>1, <1>2 DEF TypeOK, hashVars, Index
  <2>2. CASE depth > -1 /\ depth' = depth - 1 /\ Charge(names[depth], now - last[depth])
    <3>1. names[depth] \in Accounts /\ now - last[depth] \in Nat BY <2>2 DEF TypeOK, Index
    <3>2. depth' \in {-1} \cup Index /\ depth' <= depth BY <2>2 DEF TypeOK, Index
    <3> QED BY <3>1, <3>2, <2>2, <1>2, ChargeType
  <2>3. CASE depth = -1 /\ UNCHANGED depth /\ \E n \in Accounts, d \in 0 .. Wrap - 1 : Charge(n, d)
    <3>1. PICK n \in Accounts, d \in 0 .. Wrap - 1 : Charge(n, d) BY <2>3
    <3> QED BY <3>1, <2>3, <1>2, ChargeType
  <2>4. CASE depth = -1 /\ UNCHANGED depth /\ FlushWhenDue(updated) /\ UNCHANGED <<calls, elapsed>>
    BY <2>4, <1>2 DEF FlushWhenDue, TypeOK
  <2> QED BY <2>1, <2>2, <2>3, <2>4 DEF Leave, StopTimer
<1>4. \A i \in 0 .. depth' : names'[i] \in Accounts /\ last'[i] \in 0 .. now'
  BY <1>2, <1>3 DEF TypeOK, Index
<1> QED BY <1>1, <1>2, <1>3, <1>4 DEF TypeOK

LEMMA StepType == TypeOK /\ [Next]_vars => TypeOK'
<1> SUFFICES ASSUME TypeOK, [Next]_vars PROVE TypeOK' OBVIOUS
<1>1. ASSUME NEW n \in Accounts, Enter(n) PROVE TypeOK' BY <1>1, EnterType
<1>2. CASE EnterTagless
  <2>1. [kind |-> "tagless"] \in Call BY DEF Call
  <2>2. stack' \in Seq(Call) BY <1>2, <2>1, Pushed DEF EnterTagless
  <2>3. lost' \in BOOLEAN BY <1>2 DEF EnterTagless, TypeOK
  <2> QED BY <1>2, <2>2, <2>3 DEF EnterTagless, TypeOK, hashVars
<1>3. CASE EnterSkipped
  <2>1. [kind |-> "skipped"] \in Call BY DEF Call
  <2>2. stack' \in Seq(Call) BY <1>3, <2>1, Pushed DEF EnterSkipped
  <2> QED BY <1>3, <2>2 DEF EnterSkipped, TypeOK, hashVars, pictureVars
<1>4. CASE Leave BY <1>4, LeaveType
<1>5. CASE Tick
  <2>1. now' \in 0 .. MaxTime /\ now' = now + 1 BY <1>5 DEF Tick, TypeOK
  <2>2. \A i \in 0 .. depth : last[i] \in 0 .. now' BY <2>1 DEF TypeOK
  <2> QED BY <1>5, <2>1, <2>2 DEF Tick, TypeOK, hashVars, pictureVars
<1>6. CASE UNCHANGED vars BY <1>6 DEF vars, TypeOK, hashVars, pictureVars
<1> QED BY <1>1, <1>2, <1>3, <1>4, <1>5, <1>6 DEF Next

\* iCallDepth stays within its arrays or -1, and everything below it is a name
\* and a time that were set (HookRunScript.cpp, myRunScript and StopTimer).
THEOREM ProfilerTypeCorrect == Spec => []TypeOK
BY InitType, StepType, PTL DEF Spec

-----------------------------------------------------------------------------
(* The depth.                                                              *)

LEMMA InitFollowing == Init => Following
<1> SUFFICES ASSUME Init PROVE Following OBVIOUS
<1>1. Timed = {} /\ Tagless = {}
  <2>1. Len(stack) = 0 BY EmptySeq, Zenon DEF Init
  <2>2. 1 .. Len(stack) = {} BY <2>1
  <2> QED BY <2>2 DEF Timed, Tagless, OnStack
<1>2. Cardinality({}) = 0 BY FS_EmptySet
<1>3. depth = Cardinality(Timed) - 1
  <2>1. depth = -1 BY Zenon DEF Init
  <2> QED BY <1>1, <1>2, <2>1
<1> QED BY <1>1, <1>3, Zenon DEF Following

LEMMA EnterFollows ==
    ASSUME TypeOK, ~lost => Following, NEW n \in Accounts, Enter(n), ~lost'
    PROVE  Following'
<1> DEFINE c == [kind |-> "timed", name |-> n, start |-> now]
<1>1. c \in Call /\ stack' = Append(stack, c) /\ c.kind = "timed"
  BY DEF Call, TypeOK, Enter
<1>2. ~lost /\ depth < MaxCallDepth - 1 /\ Tagless = {}
  <2>1. lost' = (lost \/ depth >= MaxCallDepth - 1 \/ Tagless # {})
    BY DEF Enter, StartTimer, Tagless
  <2>2. ~lost /\ ~(depth >= MaxCallDepth - 1) /\ Tagless = {} BY <2>1, Zenon
  <2>3. depth < MaxCallDepth - 1 BY <2>2 DEF TypeOK, Index
  <2> QED BY <2>2, <2>3
<1>3. depth' = depth + 1 /\ ~emptyScript' BY <1>2 DEF Enter, StartTimer
<1>4. Timed' = Timed \cup {Len(stack) + 1} /\ Len(stack) + 1 \notin Timed
  BY <1>1, Pushed DEF Timed
<1>5. Tagless' = Tagless BY <1>1, Pushed DEF Tagless
<1>6. Cardinality(Timed') = Cardinality(Timed) + 1
  BY <1>4, OneMore, Finite DEF Timed
<1>7. Cardinality(Timed) \in Nat BY Finite DEF Timed
<1> QED BY <1>2, <1>3, <1>5, <1>6, <1>7 DEF Following

LEMMA LeaveFollows ==
    ASSUME TypeOK, Following, Leave
    PROVE  Following'
<1> DEFINE k == stack[Len(stack)].kind
<1>1. stack # <<>> /\ stack' = SubSeq(stack, 1, Len(stack) - 1) BY DEF Leave
<1>2. k \in {"timed", "tagless", "skipped"} BY <1>1, Popped DEF Call
<1>3. /\ Timed' = Timed \ {Len(stack)} /\ (Len(stack) \in Timed <=> k = "timed")
      /\ Tagless' = Tagless \ {Len(stack)} /\ (Len(stack) \in Tagless <=> k = "tagless")
  BY <1>1, Popped DEF Timed, Tagless
<1>4. UNCHANGED emptyScript BY DEF Leave
<1>5. IsFiniteSet(Timed) /\ Cardinality(Timed) \in Nat BY Finite DEF Timed
<1> HIDE DEF k
<1>6. CASE k = "timed"
  <2>1. ~emptyScript /\ Tagless = {} BY <1>3, <1>6 DEF Following
  <2>2. Cardinality(Timed') = Cardinality(Timed) - 1 BY <1>3, <1>5, <1>6, OneLess
  <2>3. depth > -1
    <3>1. Cardinality(Timed) # 0 BY <1>3, <1>5, <1>6, FS_EmptySet
    <3> QED BY <3>1, <1>5 DEF Following
  <2>4. StopTimer BY <1>6, <2>1 DEF Leave, k
  <2>5. depth' = depth - 1 BY <2>3, <2>4 DEF StopTimer
  <2> QED BY <1>3, <1>4, <1>5, <2>1, <2>2, <2>5 DEF Following
<1>7. CASE k = "tagless"
  <2>1. emptyScript BY <1>3, <1>7 DEF Following
  <2>2. UNCHANGED depth BY <2>1 DEF Leave
  <2>3. Timed' = Timed BY <1>3, <1>7
  <2> QED BY <1>4, <2>1, <2>2, <2>3 DEF Following
<1>8. CASE k = "skipped"
  <2>1. UNCHANGED depth BY <1>8 DEF Leave, k
  <2>2. Timed' = Timed /\ Tagless' = Tagless BY <1>3, <1>8
  <2> QED BY <1>4, <2>1, <2>2 DEF Following
<1> QED BY <1>2, <1>6, <1>7, <1>8

LEMMA StepFollows == TypeOK /\ (~lost => Following) /\ [Next]_vars => (~lost => Following)'
<1> SUFFICES ASSUME TypeOK, ~lost => Following, [Next]_vars, ~lost' PROVE Following' OBVIOUS
<1>1. ASSUME NEW n \in Accounts, Enter(n) PROVE Following' BY <1>1, EnterFollows
<1>2. CASE EnterTagless
  <2>1. /\ ~lost /\ Timed = {} /\ UNCHANGED depth /\ emptyScript'
        /\ stack' = Append(stack, [kind |-> "tagless"])
    BY <1>2 DEF EnterTagless, Timed
  <2>2. [kind |-> "tagless"] \in Call BY DEF Call
  <2>3. Timed' = Timed BY <2>1, <2>2, Pushed DEF Timed
  <2> QED BY <2>1, <2>3 DEF Following
<1>3. CASE EnterSkipped
  <2>1. ~lost /\ UNCHANGED <<depth, emptyScript>> /\ stack' = Append(stack, [kind |-> "skipped"])
    BY <1>3 DEF EnterSkipped, pictureVars
  <2>2. [kind |-> "skipped"] \in Call BY DEF Call
  <2>3. Timed' = Timed /\ Tagless' = Tagless BY <2>1, <2>2, Pushed DEF Timed, Tagless
  <2> QED BY <2>1, <2>3 DEF Following
<1>4. CASE Leave
  <2>1. ~lost BY <1>4 DEF Leave
  <2> QED BY <1>4, <2>1, LeaveFollows
<1>5. CASE Tick
  BY <1>5 DEF Tick, pictureVars, Following, Timed, Tagless, OnStack
<1>6. CASE UNCHANGED vars
  BY <1>6 DEF vars, pictureVars, Following, Timed, Tagless, OnStack
<1> QED BY <1>1, <1>2, <1>3, <1>4, <1>5, <1>6 DEF Next

\* Until the profiler is lost, its depth is that of the server, for every
\* nesting of scripts and searches (HookRunScript.cpp, StopTimer).
THEOREM DepthFollows == Spec => []DepthIsNesting
<1>1. Init => IInv BY InitType, InitFollowing DEF IInv
<1>2. IInv /\ [Next]_vars => IInv' BY StepType, StepFollows DEF IInv
<1>3. IInv => DepthIsNesting BY DEF IInv, Following, Timed, DepthIsNesting
<1> QED BY <1>1, <1>2, <1>3, PTL DEF Spec

-----------------------------------------------------------------------------
(* Who is where.                                                           *)

\* The timed call at place j of the stack is the Rank(j)-th of its kind, and
\* has that place in the profiler's arrays.
Rank(j) == Cardinality({i \in Timed : i <= j})

Matching ==
    \A j \in Timed : /\ names[Rank(j) - 1] = stack[j].name
                     /\ last[Rank(j) - 1] = stack[j].start

Inv == IInv /\ (~lost => Matching)

LEMMA RankType ==
    ASSUME TypeOK, NEW j \in Timed
    PROVE  /\ Rank(j) \in 1 .. Cardinality(Timed)
           /\ j = Len(stack) => Rank(j) = Cardinality(Timed)
<1> DEFINE S == {i \in Timed : i <= j}
<1>1. IsFiniteSet(Timed) /\ Timed \subseteq 1 .. Len(stack) BY Finite DEF Timed, OnStack
<1>2. S \subseteq Timed /\ j \in S BY <1>1
<1>3. IsFiniteSet(S) /\ Cardinality(S) <= Cardinality(Timed) /\ Cardinality(S) \in Nat
  BY <1>1, <1>2, FS_Subset, FS_CardinalityType
<1>4. Cardinality(S) # 0 BY <1>2, <1>3, FS_EmptySet
<1>5. Cardinality(Timed) \in Nat BY Finite DEF Timed
<1>6. ASSUME j = Len(stack) PROVE S = Timed
  <2>1. Len(stack) \in Nat BY DEF TypeOK
  <2>2. \A i \in Timed : i <= j BY <1>1, <1>6, <2>1
  <2> QED BY <2>2
<1> HIDE DEF S
<1>7. Cardinality(S) \in 1 .. Cardinality(Timed) BY <1>3, <1>4, <1>5
<1> QED BY <1>6, <1>7 DEF Rank, S

\* A call, or a return, above place j leaves its rank alone.
LEMMA RankKept ==
    ASSUME NEW j \in Timed, \A i : i <= j => (i \in Timed' <=> i \in Timed)
    PROVE  Rank(j)' = Rank(j)
<1>1. {i \in Timed' : i <= j} = {i \in Timed : i <= j} OBVIOUS
<1> QED BY <1>1 DEF Rank

\* Below the top a call or a return changes nothing.
LEMMA PushKeeps ==
    ASSUME TypeOK, NEW c \in Call, stack' = Append(stack, c)
    PROVE  /\ Len(stack') = Len(stack) + 1 /\ Len(stack) \in Nat
           /\ \A i \in 1 .. Len(stack) : stack'[i] = stack[i]
           /\ stack'[Len(stack) + 1] = c
<1>1. stack \in Seq(Call) BY DEF TypeOK
<1> QED BY <1>1, AppendProperties

LEMMA PopKeeps ==
    ASSUME TypeOK, stack # <<>>, stack' = SubSeq(stack, 1, Len(stack) - 1)
    PROVE  /\ Len(stack) \in Nat \ {0} /\ Len(stack') = Len(stack) - 1
           /\ \A i \in 1 .. Len(stack) - 1 : stack'[i] = stack[i]
<1> DEFINE n == Len(stack) - 1
<1>1. stack \in Seq(Call) /\ Len(stack) \in Nat \ {0} BY EmptySeq DEF TypeOK
<1>2. n \in Nat /\ \A i \in 1 .. n : stack[i] \in Call BY <1>1, ElementOfSeq
<1>3. stack' = SubSeq(stack, 1, n) BY DEF n
<1> HIDE DEF n
<1>4. /\ Len(SubSeq(stack, 1, n)) = IF 1 <= n THEN n - 1 + 1 ELSE 0
      /\ \A i \in 1 .. n - 1 + 1 : SubSeq(stack, 1, n)[i] = stack[1 + i - 1]
  BY <1>1, <1>2, SubSeqProperties
<1>5. Len(stack') = n /\ \A i \in 1 .. n : stack'[i] = stack[i] BY <1>2, <1>3, <1>4
<1> QED BY <1>1, <1>5 DEF n

\* A timed call begins: it gets the next place in the arrays.
LEMMA EnterMatches ==
    ASSUME IInv, ~lost => Matching, NEW n \in Accounts, Enter(n), ~lost'
    PROVE  Matching'
<1> DEFINE c == [kind |-> "timed", name |-> n, start |-> now]
<1>1. c \in Call /\ stack' = Append(stack, c) /\ c.kind = "timed"
  BY DEF Call, TypeOK, Enter, IInv
<1>2. ~lost /\ depth < MaxCallDepth - 1
  <2>1. lost' = (lost \/ depth >= MaxCallDepth - 1 \/ Tagless # {})
    BY DEF Enter, StartTimer, Tagless
  <2>2. ~lost /\ ~(depth >= MaxCallDepth - 1) BY <2>1, Zenon
  <2>3. depth \in {-1} \cup Index BY DEF IInv, TypeOK
  <2> QED BY <2>2, <2>3 DEF Index
<1>3. /\ depth = Cardinality(Timed) - 1 /\ Cardinality(Timed) \in Nat /\ IsFiniteSet(Timed)
      /\ Matching
  BY <1>2, Finite DEF IInv, Following, Timed
<1>4. /\ Timed' = Timed \cup {Len(stack) + 1} /\ Len(stack) + 1 \notin Timed
      /\ Timed \subseteq 1 .. Len(stack)
  BY <1>1, Pushed DEF Timed, IInv, OnStack
<1>5. /\ Len(stack') = Len(stack) + 1 /\ Len(stack) \in Nat
      /\ \A i \in 1 .. Len(stack) : stack'[i] = stack[i]
      /\ stack'[Len(stack) + 1] = c
  BY <1>1, PushKeeps DEF IInv
<1>6. depth' = depth + 1 /\ depth' \in Index BY <1>2, <1>3 DEF Enter, StartTimer, Index
<1>7. /\ names'[depth'] = n /\ last'[depth'] = now
      /\ \A i \in Index : i # depth' => names'[i] = names[i] /\ last'[i] = last[i]
  BY <1>6 DEF Enter, StartTimer, TypeOK, IInv
<1>8. Cardinality(Timed') = Cardinality(Timed) + 1 BY <1>3, <1>4, OneMore
<1>9. ASSUME NEW j \in Timed
      PROVE  names'[Rank(j)' - 1] = stack'[j].name /\ last'[Rank(j)' - 1] = stack'[j].start
  <2>1. Rank(j)' = Rank(j)
    <3>1. \A i : i <= j => (i \in Timed' <=> i \in Timed) BY <1>4, <1>5
    <3> QED BY <3>1, RankKept
  <2>2. Rank(j) \in 1 .. Cardinality(Timed) BY RankType DEF IInv
  <2>3. Rank(j) - 1 \in Index /\ Rank(j) - 1 # depth'
    BY <1>3, <1>6, <2>2 DEF Index
  <2> QED BY <1>3, <1>4, <1>5, <1>7, <2>1, <2>3 DEF Matching
<1>10. ASSUME NEW k, k = Len(stack) + 1
       PROVE  names'[Rank(k)' - 1] = stack'[k].name /\ last'[Rank(k)' - 1] = stack'[k].start
  <2>1. \A i \in Timed' : i <= k BY <1>4, <1>5, <1>10
  <2>2. Rank(k)' = Cardinality({i \in Timed' : i <= k}) BY DEF Rank
  <2>3. Rank(k)' - 1 = depth'
    <3>1. {i \in Timed' : i <= k} = Timed' BY <2>1
    <3>2. Rank(k)' = Cardinality(Timed) + 1 BY <1>8, <2>2, <3>1
    <3> QED BY <1>3, <1>6, <3>2
  <2> QED BY <1>5, <1>7, <1>10, <2>3
<1>11. ASSUME NEW j \in Timed'
       PROVE  names'[Rank(j)' - 1] = stack'[j].name /\ last'[Rank(j)' - 1] = stack'[j].start
  BY <1>4, <1>9, <1>10, <1>11
<1> QED BY <1>11 DEF Matching

\* A call returns: those below it keep their places.
LEMMA LeaveMatches ==
    ASSUME IInv, Matching, Leave
    PROVE  Matching'
<1>1. /\ stack # <<>> /\ stack' = SubSeq(stack, 1, Len(stack) - 1)
      /\ UNCHANGED <<names, last>>
  BY DEF Leave
<1>2. Timed' = Timed \ {Len(stack)} /\ Timed \subseteq 1 .. Len(stack)
  BY <1>1, Popped DEF Timed, IInv, OnStack
<1>3. /\ Len(stack) \in Nat \ {0}
      /\ \A i \in 1 .. Len(stack) - 1 : stack'[i] = stack[i]
  BY <1>1, PopKeeps DEF IInv
<1>4. ASSUME NEW j \in Timed'
      PROVE  names'[Rank(j)' - 1] = stack'[j].name /\ last'[Rank(j)' - 1] = stack'[j].start
  <2>1. j \in Timed /\ j \in 1 .. Len(stack) - 1 BY <1>2, <1>3
  <2>2. \A i : i <= j => (i \in Timed' <=> i \in Timed) BY <1>2, <1>3, <2>1
  <2>3. Rank(j)' = Rank(j) BY <2>1, <2>2, RankKept
  <2> QED BY <1>1, <1>3, <2>1, <2>3 DEF Matching
<1> QED BY <1>4 DEF Matching

\* A call that is not timed begins.
LEMMA UntimedMatches ==
    ASSUME IInv, Matching, NEW c \in Call, c.kind # "timed", stack' = Append(stack, c),
           UNCHANGED <<names, last>>
    PROVE  Matching'
<1>1. Timed' = Timed /\ Timed \subseteq 1 .. Len(stack) BY Pushed DEF Timed, IInv, OnStack
<1>2. \A i \in 1 .. Len(stack) : stack'[i] = stack[i] BY PushKeeps DEF IInv
<1>3. \A j \in Timed : Rank(j)' = Rank(j) BY <1>1, RankKept
<1> QED BY <1>1, <1>2, <1>3 DEF Matching

LEMMA StepMatches == Inv /\ [Next]_vars => Inv'
<1> SUFFICES ASSUME Inv, [Next]_vars PROVE Inv' OBVIOUS
<1>1. IInv /\ IInv' BY StepType, StepFollows DEF Inv, IInv
<1>2. ASSUME ~lost' PROVE Matching'
  <2>1. ASSUME NEW n \in Accounts, Enter(n) PROVE Matching'
    BY <1>1, <1>2, <2>1, EnterMatches DEF Inv
  <2>2. CASE EnterTagless
    <3>1. ~lost /\ UNCHANGED <<names, last>> /\ stack' = Append(stack, [kind |-> "tagless"])
      BY <1>2, <2>2 DEF EnterTagless
    <3>2. [kind |-> "tagless"] \in Call BY DEF Call
    <3> QED BY <1>1, <3>1, <3>2, UntimedMatches DEF Inv
  <2>3. CASE EnterSkipped
    <3>1. ~lost /\ UNCHANGED <<names, last>> /\ stack' = Append(stack, [kind |-> "skipped"])
      BY <1>2, <2>3 DEF EnterSkipped, pictureVars
    <3>2. [kind |-> "skipped"] \in Call BY DEF Call
    <3> QED BY <1>1, <3>1, <3>2, UntimedMatches DEF Inv
  <2>4. CASE Leave
    <3>1. ~lost BY <1>2, <2>4 DEF Leave
    <3> QED BY <1>1, <2>4, <3>1, LeaveMatches DEF Inv
  <2>5. CASE UNCHANGED <<stack, names, last, lost>>
    BY <1>2, <2>5 DEF Inv, Matching, Rank, Timed, OnStack
  <2> QED BY <2>1, <2>2, <2>3, <2>4, <2>5 DEF Next, Tick, vars, pictureVars
<1> QED BY <1>1, <1>2 DEF Inv

LEMMA InitInv == Init => Inv
<1> SUFFICES ASSUME Init PROVE Inv OBVIOUS
<1>1. IInv BY InitType, InitFollowing DEF IInv
<1>2. Timed = {}
  <2>1. Len(stack) = 0 BY EmptySeq, Zenon DEF Init
  <2>2. 1 .. Len(stack) = {} BY <2>1
  <2> QED BY <2>2 DEF Timed, OnStack
<1> QED BY <1>1, <1>2 DEF Inv, Matching

LEMMA InvHolds == Spec => []Inv
BY InitInv, StepMatches, PTL DEF Spec

-----------------------------------------------------------------------------
(* The profiler implements Meter.                                          *)

\* What Meter sees of a call that begins and of one that returns.
LEMMA OpenPushed ==
    ASSUME TypeOK, NEW c \in Call, stack' = Append(stack, c)
    PROVE  Open' = Append(Open, Charged(c))
<1>1. /\ Len(stack') = Len(stack) + 1 /\ Len(stack) \in Nat
      /\ \A i \in 1 .. Len(stack) : stack'[i] = stack[i]
      /\ stack'[Len(stack) + 1] = c
  BY PushKeeps
<1>2. Open = [i \in 1 .. Len(stack) |-> Charged(stack[i])] BY DEF Open
<1>3. Open' = [i \in 1 .. Len(stack) + 1 |-> Charged(stack'[i])]
  BY <1>1 DEF Open, Charged
<1> DEFINE n == Len(stack)  S == {Charged(stack[i]) : i \in 1 .. n} \cup {Charged(c)}
<1>4. Open \in Seq(S) /\ Len(Open) = n
  <2>1. Open \in [1 .. n -> S] BY <1>2
  <2> HIDE DEF S
  <2> QED BY <1>1, <2>1
<1>5. Charged(c) \in S OBVIOUS
<1> HIDE DEF S
<1>6. /\ Append(Open, Charged(c)) \in Seq(S) /\ Len(Append(Open, Charged(c))) = n + 1
      /\ \A i \in 1 .. n : Append(Open, Charged(c))[i] = Open[i]
      /\ Append(Open, Charged(c))[n + 1] = Charged(c)
  BY <1>4, <1>5, AppendProperties
<1>7. Open' \in Seq(S) /\ Len(Open') = n + 1
  <2>1. \A i \in 1 .. n + 1 : Charged(stack'[i]) \in S
    <3> TAKE i \in 1 .. n + 1
    <3>1. CASE i = n + 1 BY <1>1, <1>5, <3>1
    <3>2. CASE i # n + 1
      <4>1. i \in 1 .. n BY <1>1, <3>2
      <4> QED BY <1>1, <4>1 DEF S
    <3> QED BY <3>1, <3>2
  <2>2. Open' \in [1 .. n + 1 -> S] BY <1>3, <2>1
  <2> QED BY <1>1, <2>2
<1>8. \A i \in 1 .. n + 1 : Open'[i] = Append(Open, Charged(c))[i]
  <2> TAKE i \in 1 .. n + 1
  <2>1. CASE i = n + 1 BY <1>1, <1>3, <1>6, <2>1
  <2>2. CASE i # n + 1
    <3>1. i \in 1 .. n BY <1>1, <2>2
    <3> QED BY <1>1, <1>2, <1>3, <1>6, <3>1
  <2> QED BY <2>1, <2>2
<1> QED BY <1>6, <1>7, <1>8, SeqEqual

LEMMA OpenPopped ==
    ASSUME TypeOK, stack # <<>>, stack' = SubSeq(stack, 1, Len(stack) - 1)
    PROVE  /\ Open # <<>> /\ Open' = SubSeq(Open, 1, Len(Open) - 1)
           /\ Open[Len(Open)] = Charged(stack[Len(stack)])
<1> DEFINE n == Len(stack)  m == n - 1  S == {Charged(stack[i]) : i \in 1 .. n}
<1>1. /\ n \in Nat \ {0} /\ Len(stack') = m
      /\ \A i \in 1 .. m : stack'[i] = stack[i]
  BY PopKeeps
<1>2. Open = [i \in 1 .. n |-> Charged(stack[i])] BY DEF Open
<1>3. Open' = [i \in 1 .. m |-> Charged(stack'[i])] BY <1>1 DEF Open, Charged
<1>4. Open \in Seq(S) /\ Len(Open) = n
  <2>1. Open \in [1 .. n -> S] BY <1>2
  <2> HIDE DEF S, n
  <2> QED BY <1>1, <2>1
<1>5. Open[n] = Charged(stack[n]) /\ Open # <<>> BY <1>1, <1>2, <1>4, EmptySeq
<1>6. m \in Nat /\ m + 1 = n BY <1>1
<1>7. \A i \in 1 .. m : i \in 1 .. n /\ Open[i] = Charged(stack[i]) /\ Open[i] \in S
  BY <1>1, <1>2, <1>6
<1> HIDE DEF S, m
<1>8. /\ SubSeq(Open, 1, m) \in Seq(S)
      /\ Len(SubSeq(Open, 1, m)) = IF 1 <= m THEN m - 1 + 1 ELSE 0
      /\ \A i \in 1 .. m - 1 + 1 : SubSeq(Open, 1, m)[i] = Open[1 + i - 1]
  BY <1>4, <1>6, <1>7, SubSeqProperties
<1>9. Len(SubSeq(Open, 1, m)) = m /\ \A i \in 1 .. m : SubSeq(Open, 1, m)[i] = Open[i]
  BY <1>6, <1>8
<1>10. Open' \in [1 .. m -> S] /\ \A i \in 1 .. m : Open'[i] = Open[i]
  BY <1>1, <1>3, <1>7
<1>11. Open' \in Seq(S) /\ Len(Open') = m BY <1>6, <1>10
<1>12. Open' = SubSeq(Open, 1, m) BY <1>8, <1>9, <1>10, <1>11, SeqEqual
<1> QED BY <1>4, <1>5, <1>12 DEF m

\* The return of a timed call is charged as Meter says: its place in the arrays
\* is the one StopTimer reads.
LEMMA LeaveCharges ==
    ASSUME Inv, ~lost, Leave
    PROVE  Statistics!EndFree \/ Statistics!EndCharged
<1> DEFINE top == stack[Len(stack)]
<1>1. stack # <<>> /\ stack' = SubSeq(stack, 1, Len(stack) - 1) /\ UNCHANGED <<now, lost>>
  BY DEF Leave
<1>2. /\ TypeOK /\ Following /\ Matching
  BY DEF Inv, IInv
<1>3. /\ Open # <<>> /\ Open' = SubSeq(Open, 1, Len(Open) - 1)
      /\ Open[Len(Open)] = Charged(top)
  BY <1>1, <1>2, OpenPopped
<1>4. Statistics!Return BY <1>1, <1>3 DEF Statistics!Return
<1>5. top \in Call /\ \A k : Len(stack) \in OnStack(k) <=> top.kind = k
  BY <1>1, <1>2, Popped
<1>6. CASE top.kind = "timed"
  <2>1. Len(stack) \in Timed BY <1>5, <1>6 DEF Timed
  <2>2. Rank(Len(stack)) = Cardinality(Timed) /\ Cardinality(Timed) \in Nat \ {0}
    <3>1. Rank(Len(stack)) \in 1 .. Cardinality(Timed) BY <1>2, <2>1, RankType
    <3>2. Cardinality(Timed) \in Nat BY <1>2, Finite DEF Timed
    <3> QED BY <1>2, <2>1, <3>1, <3>2, RankType
  <2>3. depth = Cardinality(Timed) - 1 /\ depth > -1 /\ ~emptyScript
    BY <1>2, <2>1, <2>2 DEF Following
  <2>4. names[depth] = top.name /\ last[depth] = top.start
    BY <1>2, <2>1, <2>2, <2>3 DEF Matching
  <2>5. StopTimer BY <1>6, <2>3 DEF Leave
  <2>6. Charge(names[depth], now - last[depth]) BY <2>3, <2>5 DEF StopTimer
  <2>7. Charged(top) = [charged |-> TRUE, name |-> top.name, start |-> top.start]
    BY <1>6 DEF Charged
  <2>8. top.start \in Int /\ now \in Int /\ top.name \in Accounts /\ elapsed[top.name] \in Int
    BY <1>2, <1>5, <1>6 DEF Call, TypeOK
  <2>9. elapsed[top.name] + (now - top.start) = elapsed[top.name] + now - top.start BY <2>8
  <2>10. /\ calls' = [calls EXCEPT ![top.name] = @ + 1]
         /\ elapsed' = [elapsed EXCEPT ![top.name] = (@ + now - top.start) % Wrap]
    <3>1. /\ calls' = [calls EXCEPT ![top.name] = calls[top.name] + 1]
          /\ elapsed' = [elapsed EXCEPT ![top.name] = (elapsed[top.name] + (now - top.start)) % Wrap]
      BY <2>4, <2>6 DEF Charge
    <3> QED BY <2>9, <3>1
  <2>11. updated' \in {updated \cup {top.name}, {}}
    BY <2>4, <2>6 DEF Charge, FlushWhenDue
  <2> QED BY <1>3, <1>4, <2>7, <2>10, <2>11 DEF Statistics!EndCharged
<1>7. CASE top.kind # "timed"
  <2>1. top.kind = "skipped" \/ emptyScript
    <3>1. top.kind \in {"tagless", "skipped"} BY <1>5, <1>7 DEF Call
    <3>2. top.kind = "tagless" => Tagless # {} BY <1>5 DEF Tagless
    <3> QED BY <1>2, <3>1, <3>2 DEF Following
  <2>2. UNCHANGED hashVars BY <2>1 DEF Leave
  <2>3. Charged(top) = [charged |-> FALSE] BY <1>7 DEF Charged
  <2>4. UNCHANGED <<calls, elapsed, updated>> BY <2>2 DEF hashVars
  <2> QED BY <1>3, <1>4, <2>3, <2>4 DEF Statistics!EndFree
<1> QED BY <1>6, <1>7

LEMMA InitCharges == Init => Statistics!Init
<1> SUFFICES ASSUME Init PROVE Statistics!Init OBVIOUS
<1>1. Len(stack) = 0 BY EmptySeq, Zenon DEF Init
<1>2. Open = <<>>
  <2>1. 1 .. Len(stack) = {} BY <1>1
  <2>2. Open \in [1 .. 0 -> {}] BY <1>1, <2>1 DEF Open
  <2>3. Open \in Seq({}) /\ Len(Open) = 0 BY <2>2
  <2> QED BY <2>3, EmptySeq
<1>3. /\ calls = [n \in Accounts |-> 0] /\ elapsed = [n \in Accounts |-> 0]
      /\ updated = {} /\ now = 0 /\ lost = FALSE
  BY Zenon DEF Init
<1> QED BY <1>2, <1>3, Zenon DEF Statistics!Init

LEMMA StepCharges == Inv /\ [Next]_vars => [Statistics!Next]_(Statistics!vars)
<1> SUFFICES ASSUME Inv, [Next]_vars PROVE [Statistics!Next]_(Statistics!vars) OBVIOUS
<1>1. TypeOK /\ TypeOK' BY StepType DEF Inv, IInv
<1>2. CASE lost' BY <1>2 DEF Statistics!Next
<1>3. CASE ~lost'
  <2>1. ASSUME NEW n \in Accounts, Enter(n) PROVE Statistics!Begin
    <3> DEFINE c == [kind |-> "timed", name |-> n, start |-> now]
    <3>1. c \in Call /\ stack' = Append(stack, c) BY <1>1, <2>1 DEF Call, TypeOK, Enter
    <3>2. Charged(c) = [charged |-> TRUE, name |-> n, start |-> now] BY DEF Charged
    <3>3. Open' = Append(Open, [charged |-> TRUE, name |-> n, start |-> now])
      BY <1>1, <3>1, <3>2, OpenPushed
    <3>4. ~lost BY <1>3, <2>1 DEF Enter, StartTimer
    <3>5. lost' = lost BY <1>1, <1>3, <3>4 DEF TypeOK
    <3>6. UNCHANGED <<calls, elapsed, updated, now>> BY <2>1 DEF Enter, hashVars
    <3> QED BY <3>3, <3>5, <3>6 DEF Statistics!Begin
  <2>2. ASSUME NEW k \in {"tagless", "skipped"}, stack' = Append(stack, [kind |-> k]),
               UNCHANGED <<calls, elapsed, updated, now, lost>>
        PROVE  Statistics!Begin
    <3>1. [kind |-> k] \in Call BY DEF Call
    <3>2. Charged([kind |-> k]) = [charged |-> FALSE] BY DEF Charged
    <3>3. Open' = Append(Open, [charged |-> FALSE]) BY <1>1, <2>2, <3>1, <3>2, OpenPushed
    <3> QED BY <2>2, <3>3 DEF Statistics!Begin
  <2>3. CASE EnterTagless
    <3>1. ~lost BY <1>3, <2>3 DEF EnterTagless
    <3>2. UNCHANGED <<calls, elapsed, updated, now, lost>>
      BY <1>1, <1>3, <2>3, <3>1 DEF EnterTagless, hashVars, TypeOK
    <3> QED BY <2>2, <2>3, <3>2 DEF EnterTagless, Statistics!Next
  <2>4. CASE EnterSkipped
    BY <2>2, <2>4 DEF EnterSkipped, hashVars, Statistics!Next
  <2>5. CASE Leave
    <3>1. ~lost BY <1>3, <2>5 DEF Leave
    <3> QED BY <2>5, <3>1, LeaveCharges DEF Statistics!Next
  <2>6. CASE Tick
    <3>1. Open' = Open BY <2>6 DEF Tick, Open
    <3> QED BY <2>6, <3>1 DEF Tick, hashVars, Statistics!Next, Statistics!Pass
  <2>7. CASE UNCHANGED vars
    <3>1. Open' = Open BY <2>7 DEF vars, Open
    <3> QED BY <2>7, <3>1 DEF vars, hashVars, Statistics!vars
  <2> QED BY <2>1, <2>3, <2>4, <2>5, <2>6, <2>7 DEF Next, Statistics!Next
<1> QED BY <1>2, <1>3

\* The profiler implements Meter: until it is lost every timed call is charged
\* to its own name with its own time, for every nesting of scripts and searches
\* (HookRunScript.cpp, StartTimer and StopTimer).
THEOREM ChargesAreRight == Spec => ChargesRight
BY InvHolds, InitCharges, StepCharges, PTL DEF Spec, ChargesRight, Statistics!Spec
=============================================================================

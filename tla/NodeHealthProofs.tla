--------------------------- MODULE NodeHealthProofs ---------------------------
(***************************************************************************)
(* What GetHealthStatus makes of the conditions of a node, for every list  *)
(* the API server may give: a list of any length, in any order.            *)
(***************************************************************************)
EXTENDS NodeHealth, FiniteSetTheorems, SequenceTheorems, TLAPS

(* What GetHealthStatus returns for a node without conditions.             *)
Unheard == [status |-> FALSE, age |-> NoHeartbeat]

(* The invariant: a list of conditions, at least one, each of its own type. *)
ConditionsInv ==
    /\ conditions \in Seq(Condition)
    /\ conditions # <<>>
    /\ \A i, j \in DOMAIN conditions : conditions[i].type = conditions[j].type => i = j

-----------------------------------------------------------------------------
(* The loop over the conditions *)

LEMMA LastIndex ==
    ASSUME NEW n \in Nat \ {0} PROVE Max(1 .. n) = n
BY DEF Max

(* As every round of the loop overwrites what the ones before it said, what*)
(* is left after the last round is what that one says.  The fold picks the *)
(* highest index first, and Judge does not look at what it is given.       *)
LEMMA LastRound ==
    ASSUME NEW n \in Nat \ {0}, DOMAIN conditions = 1 .. n
    PROVE  GetHealthStatus = Judge(Unheard, conditions[n])
<1> DEFINE Round(g) == [s \in SUBSET DOMAIN conditions |->
                          IF s = {} THEN Unheard
                          ELSE Judge(g[s \ {Max(s)}], conditions[Max(s)])]
           Loop == CHOOSE g : g = Round(g)
<1>1. GetHealthStatus = Loop[DOMAIN conditions]
  BY DEF GetHealthStatus, FoldLeft, MapThenFoldSet, Unheard
<1>2. Loop = Round(Loop)
  <2> DEFINE g == [s \in SUBSET DOMAIN conditions |->
                     IF s = {} THEN Unheard ELSE Judge(Unheard, conditions[Max(s)])]
  <2>1. g = Round(g)
    BY DEF Judge
  <2> QED BY <2>1
<1>3. Max(DOMAIN conditions) = n /\ DOMAIN conditions # {}
  <2>1. n \in 1 .. n
    OBVIOUS
  <2> QED BY <2>1, LastIndex
<1> HIDE DEF Loop
<1>4. \A s \in SUBSET DOMAIN conditions :
         s # {} => Loop[s] = Judge(Loop[s \ {Max(s)}], conditions[Max(s)])
  BY <1>2, Zenon
<1>5. Loop[DOMAIN conditions] = Judge(Loop[DOMAIN conditions \ {n}], conditions[n])
  BY <1>3, <1>4
<1> QED BY <1>1, <1>5 DEF Judge

LEMMA JudgedAlone ==
    ASSUME NEW c \in Condition
    PROVE  /\ Judge(Unheard, c) \in [status : BOOLEAN, age : Age]
           /\ Judge(Unheard, c).status <=> (c.type = "Ready" /\ c.status = "True")
           /\ Judge(Unheard, c).age = c.age
<1>1. c.age \in Age
  BY DEF Condition
<1>2. CASE c.type = "Ready" /\ c.status = "True"
  BY <1>1, <1>2 DEF Judge
<1>3. CASE ~(c.type = "Ready" /\ c.status = "True")
  BY <1>1, <1>3 DEF Judge
<1> QED BY <1>2, <1>3

LEMMA LastConditionJudged ==
    ASSUME ConditionsInv
    PROVE  /\ Last(conditions) \in Condition
           /\ Last(conditions) = conditions[Len(conditions)]
           /\ Len(conditions) \in DOMAIN conditions
           /\ GetHealthStatus = Judge(Unheard, Last(conditions))
           /\ GetHealthStatus \in [status : BOOLEAN, age : Age]
           /\ GetHealthStatus.status <=>
                 (Last(conditions).type = "Ready" /\ Last(conditions).status = "True")
           /\ GetHealthStatus.age = Last(conditions).age
<1>1. Len(conditions) \in Nat \ {0} /\ DOMAIN conditions = 1 .. Len(conditions)
  BY DEF ConditionsInv
<1>2. GetHealthStatus = Judge(Unheard, conditions[Len(conditions)])
  BY <1>1, LastRound
<1>3. Last(conditions) \in Condition /\ Last(conditions) = conditions[Len(conditions)]
  BY <1>1 DEF ConditionsInv, Last
<1>4. GetHealthStatus = Judge(Unheard, Last(conditions))
  BY <1>2, <1>3
<1>5. Len(conditions) \in DOMAIN conditions
  BY <1>1
<1>6. LET g == Judge(Unheard, Last(conditions))
      IN  /\ g \in [status : BOOLEAN, age : Age]
          /\ g.status <=> (Last(conditions).type = "Ready" /\ Last(conditions).status = "True")
          /\ g.age = Last(conditions).age
  BY <1>3, JudgedAlone
<1> QED BY <1>3, <1>4, <1>5, <1>6, Zenon

-----------------------------------------------------------------------------
(* The invariant *)

LEMMA InitConditions == Init => ConditionsInv
<1> SUFFICES ASSUME NEW s \in {"True", "False"},
                    conditions = <<[type |-> "Ready", status |-> s, age |-> 0]>>
             PROVE  ConditionsInv
  BY DEF Init
<1>1. [type |-> "Ready", status |-> s, age |-> 0] \in Condition
  BY HealthAssumption DEF Condition, Age
<1> QED BY <1>1 DEF ConditionsInv

LEMMA NextConditions == ConditionsInv /\ [Next]_conditions => ConditionsInv'
<1> SUFFICES ASSUME ConditionsInv, [Next]_conditions PROVE ConditionsInv'
  OBVIOUS
<1>0. /\ conditions \in Seq(Condition) /\ conditions # <<>>
      /\ \A i, j \in DOMAIN conditions : conditions[i].type = conditions[j].type => i = j
  BY DEF ConditionsInv
<1>1. ASSUME NEW t \in AgentConditions, AddCondition(t) PROVE ConditionsInv'
  <2>1. PICK s \in {"True", "False"} :
          \/ conditions' = Append(conditions, [type |-> t, status |-> s, age |-> 0])
          \/ conditions' = <<[type |-> t, status |-> s, age |-> 0]>> \o conditions
    BY <1>1 DEF AddCondition
  <2> DEFINE c == [type |-> t, status |-> s, age |-> 0]
  <2>2. c \in Condition /\ c.type = t /\ \A i \in DOMAIN conditions : conditions[i].type # t
    BY <1>1, HealthAssumption DEF AddCondition, Types, Condition, Age
  <2> HIDE DEF c
  <2>3. CASE conditions' = Append(conditions, c)
    BY <1>0, <2>2, <2>3 DEF ConditionsInv
  <2>4. CASE conditions' = <<c>> \o conditions
    <3>1. /\ conditions' \in Seq(Condition)
          /\ Len(conditions') = Len(conditions) + 1
          /\ \A i \in 1 .. Len(conditions') :
               conditions'[i] = IF i = 1 THEN c ELSE conditions[i - 1]
      BY <1>0, <2>2, <2>4
    <3>2. ASSUME NEW i \in DOMAIN conditions', NEW j \in DOMAIN conditions',
                 conditions'[i].type = conditions'[j].type
          PROVE  i = j
      <4>1. i \in 1 .. Len(conditions) + 1 /\ j \in 1 .. Len(conditions) + 1
        BY <3>1
      <4>2. CASE i = 1 /\ j # 1
        BY <1>0, <2>2, <3>1, <3>2, <4>1, <4>2
      <4>3. CASE i # 1 /\ j = 1
        BY <1>0, <2>2, <3>1, <3>2, <4>1, <4>3
      <4>4. CASE i # 1 /\ j # 1
        <5>1. i - 1 \in DOMAIN conditions /\ j - 1 \in DOMAIN conditions
          BY <1>0, <4>1, <4>4
        <5>2. conditions[i - 1].type = conditions[j - 1].type
          BY <3>1, <3>2, <4>1, <4>4
        <5>3. i - 1 = j - 1
          BY <1>0, <5>1, <5>2
        <5> QED BY <4>1, <5>3
      <4> QED BY <4>2, <4>3, <4>4
    <3>3. conditions' # <<>>
      BY <1>0, <3>1
    <3> QED BY <3>1, <3>2, <3>3 DEF ConditionsInv
  <2> QED BY <2>1, <2>3, <2>4 DEF c
<1>2. ASSUME DOMAIN conditions' = DOMAIN conditions,
             conditions' \in Seq(Condition),
             \A i \in DOMAIN conditions : conditions'[i].type = conditions[i].type
      PROVE  ConditionsInv'
  BY <1>0, <1>2 DEF ConditionsInv
<1>3. ASSUME NEW i \in DOMAIN conditions, Renew(i) \/ GiveUp(i) PROVE ConditionsInv'
  <2>0. conditions[i] \in Condition /\ conditions[i].age \in Age /\ 0 \in Age
    <3>1. conditions[i] \in Condition
      BY <1>0
    <3> QED BY <3>1, HealthAssumption DEF Condition, Age
  <2>1. PICK c \in Condition : /\ c.type = conditions[i].type
                              /\ conditions' = [conditions EXCEPT ![i] = c]
    <3>1. CASE GiveUp(i)
      <4> DEFINE c == [conditions[i] EXCEPT !.status = "Unknown"]
      <4>1. c \in Condition /\ c.type = conditions[i].type
        BY <2>0 DEF Condition
      <4>2. conditions' = [conditions EXCEPT ![i] = c]
        BY <3>1 DEF GiveUp
      <4> QED BY <4>1, <4>2
    <3>2. ASSUME NEW s \in {"True", "False"},
                 conditions' = [conditions EXCEPT ![i].status = s, ![i].age = 0]
          PROVE  \E c \in Condition : /\ c.type = conditions[i].type
                                     /\ conditions' = [conditions EXCEPT ![i] = c]
      <4> DEFINE c == [conditions[i] EXCEPT !.status = s, !.age = 0]
      <4>1. c \in Condition /\ c.type = conditions[i].type
        BY <2>0 DEF Condition
      <4>2. conditions' = [conditions EXCEPT ![i] = c]
        BY <1>0, <3>2
      <4> QED BY <4>1, <4>2
    <3> QED BY <1>3, <3>1, <3>2 DEF Renew
  <2> QED BY <1>0, <1>2, <2>1
<1>4. CASE Tick
  <2>1. \A c \in Condition :
          LET d == [c EXCEPT !.age = IF @ < NotReadyThreshold THEN @ + 1 ELSE @]
          IN  d \in Condition /\ d.type = c.type
    BY HealthAssumption DEF Condition, Age
  <2> DEFINE d(c) == [c EXCEPT !.age = IF @ < NotReadyThreshold THEN @ + 1 ELSE @]
  <2>2. conditions' = [i \in DOMAIN conditions |-> d(conditions[i])]
    BY <1>4 DEF Tick
  <2>3. \A i \in DOMAIN conditions : d(conditions[i]) \in Condition
                                   /\ d(conditions[i]).type = conditions[i].type
    BY <1>0, <2>1
  <2> HIDE DEF d
  <2> QED BY <1>0, <1>2, <2>2, <2>3
<1>5. CASE UNCHANGED conditions
  BY <1>5 DEF ConditionsInv
<1> QED BY <1>1, <1>3, <1>4, <1>5 DEF Next

LEMMA ConditionsInvariant == Spec => []ConditionsInv
BY InitConditions, NextConditions, PTL DEF Spec

-----------------------------------------------------------------------------
(* Properties *)

(* GetHealthStatus: for every list a node object has in its life, the last *)
(* condition decides by itself, whatever the kubelet and the other agents  *)
(* have written into the ones before it.                                   *)
THEOREM LastDecides == Spec => [](GetHealthStatus = Judge(Unheard, Last(conditions)))
BY ConditionsInvariant, LastConditionJudged, PTL

(* The type invariant: one condition of each type, and a heartbeat that is *)
(* that of a condition.                                                    *)
THEOREM TypeCorrect == Spec => []TypeOK
<1>1. ConditionsInv => TypeOK
  <2> SUFFICES ASSUME ConditionsInv PROVE TypeOK
    OBVIOUS
  <2>1. \A i \in DOMAIN conditions : conditions[i] \in Condition
    BY DEF ConditionsInv
  <2>2. Cardinality(Types) = Len(conditions)
    <3> DEFINE f == [i \in 1 .. Len(conditions) |-> conditions[i].type]
    <3>1. DOMAIN conditions = 1 .. Len(conditions) /\ Len(conditions) \in Nat
      BY DEF ConditionsInv
    <3>2. f \in Bijection(1 .. Len(conditions), Types)
      BY <3>1 DEF ConditionsInv, Types, Bijection, Injection, Surjection, IsInjective
    <3>3. /\ IsFiniteSet(1 .. Len(conditions))
          /\ Cardinality(1 .. Len(conditions)) = Len(conditions)
      <4>1. /\ IsFiniteSet(1 .. Len(conditions))
            /\ Cardinality(1 .. Len(conditions)) =
                 IF 1 > Len(conditions) THEN 0 ELSE Len(conditions) - 1 + 1
        BY <3>1, FS_Interval
      <4> QED BY <3>1, <4>1
    <3> HIDE DEF f
    <3> QED BY <3>2, <3>3, FS_Bijection DEF ExistsBijection
  <2>3. GetHealthStatus \in [status : BOOLEAN, age : Age]
    BY LastConditionJudged
  <2> QED BY <2>1, <2>2, <2>3 DEF TypeOK
<1> QED BY <1>1, ConditionsInvariant, PTL

(* repairRun spares every node whose writers are all heard of.             *)
THEOREM HeardOfAreSpared == Spec => []HeardOfSpared
<1>1. ConditionsInv => HeardOfSpared
  BY LastConditionJudged, HealthAssumption
     DEF HeardOfSpared, Overdue, Condition, Age
<1> QED BY <1>1, ConditionsInvariant, PTL

(* repairRun goes by the kubelet alone where its condition is the last.    *)
THEOREM KubeletHasTheLastWord == Spec => []KubeletDecides
<1>1. ConditionsInv => KubeletDecides
  BY LastConditionJudged DEF KubeletDecides, Overdue, Silent
<1> QED BY <1>1, ConditionsInvariant, PTL
=============================================================================

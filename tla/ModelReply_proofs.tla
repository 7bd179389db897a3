------------------------- MODULE ModelReply_proofs -------------------------
(***************************************************************************)
(* What holds of the routes of a reply for any number of requests, routes, *)
(* rounds of tools and failures: the types, and that no route is left out. *)
(***************************************************************************)
EXTENDS ModelReply, FiniteSetTheorems, WellFoundedInduction, TLAPS

-----------------------------------------------------------------------------
(* The candidates that are chosen *)

\* A set of naturals has a least element; this is what induction rests on here.
LEMMA Least ==
    ASSUME NEW T \in SUBSET Nat, T # {}
    PROVE  \E n \in T : \A m \in T : n <= m
<1> DEFINE Initial == {1 .. n : n \in T}
<1>1. IsWellFoundedOn(StrictSubsetOrdering(Nat), FiniteSubsetsOf(Nat))
  BY FS_StrictSubsetOrderingWellFounded
<1>2. Initial \subseteq FiniteSubsetsOf(Nat)
  <2>1. \A n \in Nat : IsFiniteSet(1 .. n)
    BY FS_Interval
  <2> QED BY <2>1 DEF FiniteSubsetsOf
<1> Initial # {}
  OBVIOUS
<1>3. PICK x \in Initial : \A y \in Initial : ~ (<<y, x>> \in StrictSubsetOrdering(Nat))
  BY <1>1, <1>2, WFMin
<1>4. PICK n \in T : x = 1 .. n
  OBVIOUS
<1>5. ASSUME NEW m \in T, m < n
      PROVE  FALSE
  <2>1. /\ (1 .. m) \subseteq (1 .. n) /\ n \in 1 .. n /\ n \notin 1 .. m
        /\ 1 .. m \in Initial /\ 1 .. m \subseteq Nat /\ 1 .. n \subseteq Nat
    BY <1>5
  <2>2. <<1 .. m, 1 .. n>> \in StrictSubsetOrdering(Nat)
    BY <2>1 DEF StrictSubsetOrdering
  <2> QED BY <1>3, <1>4, <2>1, <2>2
<1> QED BY <1>5

\* A property of the numbers up to N that begins at 0 and is handed on holds of all of them.
LEMMA Induction ==
    ASSUME NEW N \in Nat, NEW T, 0 \in T, \A n \in 1 .. N : n - 1 \in T => n \in T
    PROVE  0 .. N \subseteq T
<1> SUFFICES ASSUME (0 .. N) \ T # {}
             PROVE  FALSE
  OBVIOUS
<1>1. PICK n \in (0 .. N) \ T : \A m \in (0 .. N) \ T : n <= m
  <2>1. (0 .. N) \ T \in SUBSET Nat
    OBVIOUS
  <2> QED BY <2>1, Least
<1>2. n # 0 /\ n \in 1 .. N /\ n - 1 \in 0 .. N
  BY <1>1
<1> QED BY <1>1, <1>2

\* One more candidate
Extend(S, before, n) ==
    IF n = 0 THEN <<>>
    ELSE IF Candidates[n] \in S THEN Append(before[n - 1], Candidates[n])
    ELSE before[n - 1]

Chooses(g, N, S) == g = [n \in 0 .. N |-> Extend(S, g, n)]

LEMMA ChoiceExists ==
    ASSUME NEW S, NEW N \in Nat
    PROVE  \E g : Chooses(g, N, S)
<1> DEFINE T == {n \in 0 .. N : \E g : Chooses(g, n, S)}
<1>1. 0 \in T
  <2> DEFINE g == [n \in 0 .. 0 |-> <<>>]
  <2>1. Chooses(g, 0, S)
    BY DEF Chooses, Extend
  <2> QED BY <2>1
<1>2. ASSUME NEW n \in 1 .. N, n - 1 \in T
      PROVE  n \in T
  <2>1. PICK g : Chooses(g, n - 1, S)
    BY <1>2
  <2> DEFINE h == [k \in 0 .. n |-> IF k < n THEN g[k] ELSE Extend(S, g, n)]
  <2>2. \A k \in 0 .. n - 1 : h[k] = g[k] /\ g[k] = Extend(S, g, k)
    BY <2>1 DEF Chooses
  <2>3. \A k \in 0 .. n : h[k] = Extend(S, h, k)
    <3> SUFFICES ASSUME NEW k \in 0 .. n
                 PROVE  h[k] = Extend(S, h, k)
      OBVIOUS
    <3>1. k # 0 => k - 1 \in 0 .. n - 1 /\ h[k - 1] = g[k - 1]
      BY <2>2
    <3>2. Extend(S, h, k) = Extend(S, g, k)
      BY <3>1 DEF Extend
    <3>3. h[k] = Extend(S, g, k)
      <4>1. CASE k = n
        BY <4>1
      <4>2. CASE k < n
        <5>1. k \in 0 .. n - 1
          BY <4>2
        <5> QED BY <2>2, <5>1
      <4> QED BY <4>1, <4>2
    <3> QED BY <3>2, <3>3
  <2>4. Chooses(h, n, S)
    BY <2>3 DEF Chooses
  <2> QED BY <2>4
<1> HIDE DEF T
<1>3. N \in T
  BY <1>1, <1>2, Induction
<1> QED BY <1>3 DEF T

LEMMA ToSetFacts ==
    ASSUME NEW S, NEW s \in Seq(S), NEW t \in Seq(S), NEW e \in S
    PROVE  /\ ToSet(s) \in SUBSET S
           /\ ToSet(Append(s, e)) = ToSet(s) \cup {e}
           /\ ToSet(s \o t) = ToSet(s) \cup ToSet(t)
           /\ s # <<>> => Head(s) \in ToSet(s) /\ Tail(s) \in Seq(S) /\ ToSet(s) = {Head(s)} \cup ToSet(Tail(s))
           /\ ToSet(s) = {} => s = <<>>
<1> USE DEF ToSet
<1>1. ToSet(s) \in SUBSET S
  OBVIOUS
<1>2. ToSet(Append(s, e)) = ToSet(s) \cup {e}
  <2> DEFINE u == Append(s, e)
  <2>1. /\ Len(s) \in Nat /\ DOMAIN s = 1 .. Len(s) /\ DOMAIN u = 1 .. (Len(s) + 1)
        /\ u[Len(s) + 1] = e /\ \A i \in 1 .. Len(s) : u[i] = s[i]
    OBVIOUS
  <2>2. 1 .. (Len(s) + 1) = 1 .. Len(s) \cup {Len(s) + 1}
    BY <2>1
  <2> HIDE DEF u
  <2>3. ToSet(u) = ToSet(s) \cup {e}
    BY <2>1, <2>2
  <2> QED BY <2>3 DEF u
<1>3. ToSet(s \o t) = ToSet(s) \cup ToSet(t)
  <2> DEFINE u == s \o t
  <2>1. /\ Len(s) \in Nat /\ Len(t) \in Nat /\ DOMAIN s = 1 .. Len(s) /\ DOMAIN t = 1 .. Len(t)
        /\ DOMAIN u = 1 .. (Len(s) + Len(t))
        /\ \A i \in 1 .. Len(s) : u[i] = s[i]
        /\ \A i \in 1 .. Len(t) : u[Len(s) + i] = t[i]
    OBVIOUS
  <2>2. \A i \in DOMAIN u : i \in DOMAIN s \/ (i - Len(s) \in DOMAIN t /\ i = Len(s) + (i - Len(s)))
    BY <2>1
  <2>3. \A i \in DOMAIN t : Len(s) + i \in DOMAIN u
    BY <2>1
  <2>4. \A i \in DOMAIN s : i \in DOMAIN u
    BY <2>1
  <2> HIDE DEF u
  <2>5. ToSet(u) \subseteq ToSet(s) \cup ToSet(t)
    BY <2>1, <2>2
  <2>6. ToSet(s) \cup ToSet(t) \subseteq ToSet(u)
    BY <2>1, <2>3, <2>4
  <2> QED BY <2>5, <2>6 DEF u
<1>4. s # <<>> => Head(s) \in ToSet(s) /\ Tail(s) \in Seq(S) /\ ToSet(s) = {Head(s)} \cup ToSet(Tail(s))
  <2> SUFFICES ASSUME s # <<>>
               PROVE  Head(s) \in ToSet(s) /\ Tail(s) \in Seq(S) /\ ToSet(s) = {Head(s)} \cup ToSet(Tail(s))
    OBVIOUS
  <2> DEFINE u == Tail(s)
  <2>1. /\ Len(s) \in Nat \ {0} /\ DOMAIN s = 1 .. Len(s) /\ u \in Seq(S)
        /\ DOMAIN u = 1 .. (Len(s) - 1) /\ Head(s) = s[1]
        /\ \A i \in 1 .. (Len(s) - 1) : u[i] = s[i + 1]
    OBVIOUS
  <2>2. \A i \in DOMAIN s : i = 1 \/ (i - 1 \in DOMAIN u /\ s[i] = u[i - 1])
    BY <2>1
  <2>3. \A i \in DOMAIN u : i + 1 \in DOMAIN s /\ u[i] = s[i + 1]
    BY <2>1
  <2>4. 1 \in DOMAIN s
    BY <2>1
  <2> HIDE DEF u
  <2>5. ToSet(s) = {Head(s)} \cup ToSet(u)
    BY <2>1, <2>2, <2>3, <2>4
  <2> QED BY <2>1, <2>4, <2>5 DEF u
<1>5. ToSet(s) = {} => s = <<>>
  <2>1. s # <<>> => 1 \in DOMAIN s
    OBVIOUS
  <2> QED BY <2>1
<1> QED BY <1>1, <1>2, <1>3, <1>4, <1>5

LEMMA ChoiceKeeps ==
    ASSUME NEW S, NEW g, Chooses(g, Len(Candidates), S)
    PROVE  /\ g[Len(Candidates)] \in Seq(RouteSet)
           /\ ToSet(g[Len(Candidates)]) = RouteSet \cap S
<1> DEFINE N == Len(Candidates)
           T == {n \in 0 .. N : /\ g[n] \in Seq(RouteSet)
                                /\ ToSet(g[n]) = {Candidates[i] : i \in 1 .. n} \cap S}
<1>1. Candidates \in Seq(RouteSet) /\ N \in Nat
  BY ModelReplyAssumption
<1>2. \A n \in 0 .. N : g[n] = Extend(S, g, n)
  BY DEF Chooses
<1>3. 0 \in T
  <2>1. 0 \in 0 .. N /\ g[0] = <<>>
    BY <1>1, <1>2 DEF Extend
  <2>2. <<>> \in Seq(RouteSet) /\ ToSet(<<>>) = {} /\ 1 .. 0 = {}
    BY DEF ToSet
  <2> QED BY <2>1, <2>2
<1>4. ASSUME NEW n \in 1 .. N, n - 1 \in T
      PROVE  n \in T
  <2>1. /\ g[n - 1] \in Seq(RouteSet)
        /\ ToSet(g[n - 1]) = {Candidates[i] : i \in 1 .. (n - 1)} \cap S
        /\ Candidates[n] \in RouteSet /\ n \in 0 .. N /\ n # 0
    BY <1>1, <1>4
  <2>2. {Candidates[i] : i \in 1 .. n} = {Candidates[i] : i \in 1 .. (n - 1)} \cup {Candidates[n]}
    <3>1. 1 .. n = 1 .. (n - 1) \cup {n}
      BY <1>1
    <3> QED BY <3>1
  <2>3. CASE Candidates[n] \in S
    <3>1. g[n] = Append(g[n - 1], Candidates[n])
      BY <1>2, <2>1, <2>3 DEF Extend
    <3>2. g[n] \in Seq(RouteSet)
      BY <2>1, <3>1
    <3>3. ToSet(g[n]) = ToSet(g[n - 1]) \cup {Candidates[n]}
      BY <2>1, <3>1, ToSetFacts
    <3> QED BY <2>1, <2>2, <2>3, <3>2, <3>3
  <2>4. CASE Candidates[n] \notin S
    <3>1. g[n] = g[n - 1]
      BY <1>2, <2>1, <2>4 DEF Extend
    <3> QED BY <2>1, <2>2, <2>4, <3>1
  <2> QED BY <2>3, <2>4
<1> HIDE DEF T
<1>5. 0 .. N \subseteq T
  BY <1>1, <1>3, <1>4, Induction
<1>6. N \in T
  BY <1>1, <1>5
<1>7. RouteSet = {Candidates[i] : i \in 1 .. N}
  BY <1>1 DEF RouteSet, ToSet
<1> QED BY <1>6, <1>7 DEF T

\* What is chosen is what was asked for, and is a candidate.
LEMMA AmongIs ==
    ASSUME NEW S
    PROVE  Among(S) \in Seq(RouteSet) /\ ToSet(Among(S)) = RouteSet \cap S
<1> DEFINE chosen == CHOOSE g : Chooses(g, Len(Candidates), S)
<1>1. Len(Candidates) \in Nat
  BY ModelReplyAssumption
<1>2. Chooses(chosen, Len(Candidates), S)
  BY <1>1, ChoiceExists
<1>3. Among(S) = chosen[Len(Candidates)]
  BY DEF Among, Chooses, Extend
<1> HIDE DEF chosen
<1> QED BY <1>2, <1>3, ChoiceKeeps

-----------------------------------------------------------------------------
(* Types *)

Ways == ToolWays \cup {"stream", "create"}

LEMMA WayTyped == ASSUME NEW q, NEW route PROVE Plain(route) \in Ways /\ WayOf(q, route) \in Ways
BY DEF Plain, WayOf, Ways, ToolWays

\* What a step does to one request's chain of routes.
ChainTypeOK ==
    /\ stage \in [Queries -> {"idle", "looked", "asking", "done", "failed", "cancelled"}]
    /\ ready \in [Queries -> SUBSET RouteSet] /\ tried \in [Queries -> SUBSET RouteSet]
    /\ woke \in [Queries -> SUBSET RouteSet]
    /\ plan \in [Queries -> Seq(RouteSet)]
    /\ \A q \in Queries : stage[q] = "asking" => plan[q] # <<>> /\ Head(plan[q]) \in tried[q]

CallTypeOK ==
    /\ way \in [Queries -> Ways]
    /\ rounds \in [Queries -> 0 .. MaxRounds]
    /\ calls \in [Queries -> Nat] /\ \A q \in Queries : stage[q] = "asking" => calls[q] # 0
    /\ voices \in [Queries -> SUBSET Nat] /\ \A q \in Queries : voices[q] \subseteq 1 .. calls[q]
    /\ spoke \in [Queries -> BOOLEAN]

SharedTypeOK ==
    /\ abandoned \subseteq Queries
    /\ cooling \cup noTools \cup noStream \subseteq RouteSet
    /\ failures \in 0 .. MaxFailures

ReplyTyped == ChainTypeOK /\ CallTypeOK /\ SharedTypeOK

LEMMA HeadIsRoute ==
    ASSUME ChainTypeOK, NEW q \in Queries, stage[q] = "asking"
    PROVE  Head(plan[q]) \in RouteSet /\ Tail(plan[q]) \in Seq(RouteSet)
BY DEF ChainTypeOK

LEMMA AttemptTyped ==
    ASSUME ChainTypeOK, CallTypeOK, NEW q \in Queries,
           NEW routes \in Seq(RouteSet), routes # <<>>,
           Attempt(q, routes), UNCHANGED <<ready, woke>>
    PROVE  ChainTypeOK' /\ CallTypeOK'
<1>1. Head(routes) \in RouteSet
  OBVIOUS
<1>2. ChainTypeOK'
  BY <1>1 DEF Attempt, ChainTypeOK
<1>3. CallTypeOK'
  BY WayTyped, ModelReplyAssumption DEF Attempt, CallTypeOK
<1> QED BY <1>2, <1>3

LEMMA FinishTyped ==
    ASSUME ChainTypeOK, CallTypeOK, NEW q \in Queries, NEW how \in {"done", "failed"},
           Finish(q, how), UNCHANGED <<ready, woke>>
    PROVE  ChainTypeOK' /\ CallTypeOK'
BY DEF Finish, ChainTypeOK, CallTypeOK, replyVars

LEMMA NextRouteTyped ==
    ASSUME ChainTypeOK, CallTypeOK, NEW q \in Queries, stage[q] = "asking",
           NextRoute(q), UNCHANGED <<ready, woke>>
    PROVE  ChainTypeOK' /\ CallTypeOK'
<1>1. plan[q] \in Seq(RouteSet)
  BY DEF ChainTypeOK
<1>2. CASE Len(plan[q]) > 1
  <2>1. Tail(plan[q]) \in Seq(RouteSet) /\ Tail(plan[q]) # <<>>
    BY <1>1, <1>2
  <2> QED BY <1>2, <2>1, AttemptTyped DEF NextRoute
<1>3. CASE ~ (Len(plan[q]) > 1)
  BY <1>3, FinishTyped DEF NextRoute
<1> QED BY <1>2, <1>3

\* The order of the plan: every candidate that is ready or cools, or all of them.
PlanFor(q) ==
    IF Ordered(Among(ready[q]), Among(cooling)) = <<>> THEN Candidates
    ELSE Ordered(Among(ready[q]), Among(cooling))

LEMMA PlanFacts ==
    ASSUME NEW q
    PROVE  /\ PlanFor(q) \in Seq(RouteSet) /\ PlanFor(q) # <<>>
           /\ RouteSet \cap (ready[q] \cup cooling) \subseteq ToSet(PlanFor(q))
           /\ Ordered(Among(ready[q]), Among(cooling)) = <<>> => ToSet(PlanFor(q)) = RouteSet
<1> DEFINE u == Ordered(Among(ready[q]), Among(cooling))
<1>1. /\ Among(ready[q]) \in Seq(RouteSet) /\ ToSet(Among(ready[q])) = RouteSet \cap ready[q]
      /\ Among(cooling) \in Seq(RouteSet) /\ ToSet(Among(cooling)) = RouteSet \cap cooling
  BY AmongIs
<1>2. u \in Seq(RouteSet) /\ (RouteSet # {} => ToSet(u) = RouteSet \cap (ready[q] \cup cooling))
  BY <1>1, ToSetFacts DEF Ordered
<1>3. Candidates \in Seq(RouteSet) /\ Candidates # <<>> /\ ToSet(Candidates) = RouteSet
  BY ModelReplyAssumption DEF RouteSet
<1> HIDE DEF u
<1>4. PlanFor(q) = IF u = <<>> THEN Candidates ELSE u
  BY DEF PlanFor, u
<1> QED BY <1>2, <1>3, <1>4 DEF u

LEMMA LookTyped ==
    ASSUME ReplyTyped, NEW q \in Queries, LookForReady(q) \/ LookForCooling(q)
    PROVE  ReplyTyped'
<1> USE DEF ReplyTyped
<1>1. ChainTypeOK /\ CallTypeOK /\ SharedTypeOK
  OBVIOUS
<1>2. CASE LookForReady(q)
  <2>1. SharedTypeOK' /\ UNCHANGED <<plan, tried, replyVars, woke>>
    BY <1>1, <1>2 DEF LookForReady, SharedTypeOK, routeVars
  <2>2. stage' = [stage EXCEPT ![q] = "looked"] /\ ready' = [ready EXCEPT ![q] = RouteSet \ cooling]
    BY <1>2 DEF LookForReady
  <2>3. ChainTypeOK'
    BY <1>1, <2>1, <2>2 DEF ChainTypeOK
  <2>4. CallTypeOK'
    BY <1>1, <2>1, <2>2 DEF CallTypeOK, ChainTypeOK, replyVars
  <2> QED BY <2>1, <2>3, <2>4
<1>3. CASE LookForCooling(q)
  <2>1. Finish(q, "failed") \/ Attempt(q, PlanFor(q))
    BY <1>3 DEF LookForCooling, PlanFor
  <2>2. UNCHANGED <<ready, woke, abandoned, routeVars, failures>>
    BY <1>3 DEF LookForCooling
  <2>3. SharedTypeOK'
    BY <1>1, <2>2 DEF SharedTypeOK, routeVars
  <2> QED BY <1>1, <2>1, <2>2, <2>3, PlanFacts, AttemptTyped, FinishTyped
<1> QED BY <1>2, <1>3

\* A call of the attempt: its text, the next one.
LEMMA AnswerTyped ==
    ASSUME ReplyTyped, NEW q \in Queries, StreamChunk(q) \/ WholeText(q) \/ ToolRound(q)
    PROVE  ReplyTyped'
<1> USE DEF ReplyTyped
<1>1. ChainTypeOK /\ CallTypeOK /\ SharedTypeOK
  OBVIOUS
<1>2. SharedTypeOK'
  BY <1>1 DEF StreamChunk, WholeText, ToolRound, SharedTypeOK, routeVars
<1>3. /\ UNCHANGED <<ready, plan, tried, woke, way>> /\ stage[q] = "asking"
      /\ \/ UNCHANGED <<stage, spoke>>
         \/ \E next \in {"asking", "done"} : Yield(q, next)
  BY DEF StreamChunk, WholeText, ToolRound, Chunk, Asking
<1>4. ChainTypeOK'
  <2>1. UNCHANGED stage \/ \E s \in {"asking", "done", "cancelled"} : stage' = [stage EXCEPT ![q] = s]
    BY <1>3 DEF Yield
  <2> QED BY <1>1, <1>3, <2>1 DEF ChainTypeOK
<1>5. spoke' \in [Queries -> BOOLEAN]
  BY <1>1, <1>3 DEF Yield, CallTypeOK
<1>6. \A r \in Queries : stage'[r] = "asking" => stage[r] = "asking"
  BY <1>1, <1>3 DEF ChainTypeOK, Yield
<1>7. CASE StreamChunk(q) \/ WholeText(q)
  <2>1. UNCHANGED <<rounds, calls>>
    BY <1>7 DEF StreamChunk, WholeText
  <2>2. \E said \in SUBSET {calls[q]} : voices' = [voices EXCEPT ![q] = @ \cup said]
    <3>1. CASE \E said \in SUBSET {calls[q]}, next \in {"asking", "done"} : Chunk(q, said, next)
      BY <3>1 DEF Chunk
    <3>2. CASE UNCHANGED voices
      <4>1. voices' = [voices EXCEPT ![q] = @ \cup {}]
        BY <1>1, <3>2 DEF CallTypeOK
      <4> QED BY <4>1
    <3> QED BY <1>7, <3>1, <3>2 DEF StreamChunk, WholeText
  <2>3. calls[q] \in Nat /\ calls[q] \in 1 .. calls[q]
    BY <1>1, <1>3 DEF CallTypeOK
  <2>4. voices' \in [Queries -> SUBSET Nat] /\ \A r \in Queries : voices'[r] \subseteq 1 .. calls[r]
    <3>1. PICK said \in SUBSET {calls[q]} : voices' = [voices EXCEPT ![q] = @ \cup said]
      BY <2>2
    <3>2. voices[q] \cup said \subseteq 1 .. calls[q] /\ voices[q] \cup said \in SUBSET Nat
      BY <1>1, <2>3 DEF CallTypeOK
    <3> QED BY <1>1, <3>1, <3>2 DEF CallTypeOK
  <2> QED BY <1>1, <1>2, <1>3, <1>4, <1>5, <1>6, <2>1, <2>4 DEF CallTypeOK
<1>8. CASE ToolRound(q)
  <2>1. /\ rounds[q] < MaxRounds /\ rounds' = [rounds EXCEPT ![q] = @ + 1]
        /\ calls' = [calls EXCEPT ![q] = @ + 1] /\ voices' = [voices EXCEPT ![q] = {}]
    BY <1>8 DEF ToolRound
  <2>2. rounds[q] + 1 \in 0 .. MaxRounds /\ calls[q] + 1 \in Nat
    BY <1>1, <2>1, ModelReplyAssumption DEF CallTypeOK
  <2>3. rounds' \in [Queries -> 0 .. MaxRounds] /\ calls' \in [Queries -> Nat]
    BY <1>1, <2>1, <2>2 DEF CallTypeOK
  <2>4. voices' \in [Queries -> SUBSET Nat]
    BY <1>1, <2>1 DEF CallTypeOK
  <2>5. \A r \in Queries : voices'[r] \subseteq 1 .. calls'[r]
    BY <1>1, <2>1 DEF CallTypeOK
  <2>6. \A r \in Queries : stage'[r] = "asking" => calls'[r] # 0
    BY <1>1, <1>6, <2>1, <2>2 DEF CallTypeOK
  <2> QED BY <1>1, <1>2, <1>3, <1>4, <1>5, <2>3, <2>4, <2>5, <2>6 DEF CallTypeOK
<1> QED BY <1>7, <1>8

\* A call is repeated: Again, with what the four refusals do besides.
LEMMA AgainTyped ==
    ASSUME ReplyTyped, NEW q \in Queries,
           ToolsRefused(q) \/ ParameterRefused(q) \/ StreamRefused(q) \/ StreamRequired(q)
    PROVE  ReplyTyped'
<1> USE DEF ReplyTyped
<1>1. PICK how \in Ways : Again(q, how)
  <2>1. Plain(Head(plan[q])) \in Ways /\ way[q] \in Ways /\ {"stream", "create", "tools_create"} \subseteq Ways
    BY WayTyped DEF CallTypeOK, Ways, ToolWays
  <2> QED BY <2>1 DEF ToolsRefused, ParameterRefused, StreamRefused, StreamRequired
<1>2. /\ stage[q] = "asking" /\ UNCHANGED <<stage, ready, plan, tried, spoke, abandoned, cooling, woke>>
      /\ way' = [way EXCEPT ![q] = how] /\ calls' = [calls EXCEPT ![q] = @ + 1]
      /\ failures < MaxFailures /\ failures' = failures + 1
  BY <1>1 DEF Again, AskAgain, Problem, ToolsRefused, ParameterRefused, StreamRefused, StreamRequired,
              Asking
<1>3. Head(plan[q]) \in RouteSet
  BY <1>2, HeadIsRoute
<1>4. ChainTypeOK'
  BY <1>2 DEF ChainTypeOK
<1>5. SharedTypeOK'
  <2>1. noTools' \cup noStream' \subseteq RouteSet
    BY <1>3 DEF SharedTypeOK, ToolsRefused, ParameterRefused, StreamRefused, StreamRequired
  <2>2. failures + 1 \in 0 .. MaxFailures
    BY <1>2, ModelReplyAssumption DEF SharedTypeOK
  <2> QED BY <1>2, <2>1, <2>2 DEF SharedTypeOK
<1>6. rounds' = rounds \/ rounds' = [rounds EXCEPT ![q] = 0]
  BY DEF ToolsRefused, ParameterRefused, StreamRefused, StreamRequired
<1>7. \E v \in {voices[q], {}, voices[q] \cup {calls[q]}} : voices' = [voices EXCEPT ![q] = v]
  <2>1. voices = [voices EXCEPT ![q] = voices[q]]
    BY DEF CallTypeOK
  <2>2. CASE ToolsRefused(q)
    BY <2>2 DEF ToolsRefused
  <2>3. CASE ParameterRefused(q)
    BY <2>3 DEF ParameterRefused, Forgotten
  <2>4. CASE StreamRefused(q)
    BY <2>1, <2>4 DEF StreamRefused
  <2>5. CASE StreamRequired(q)
    BY <2>1, <2>5 DEF StreamRequired
  <2> QED BY <2>2, <2>3, <2>4, <2>5
<1>8. calls[q] \in Nat /\ calls[q] + 1 \in Nat \ {0} /\ 1 .. calls[q] \subseteq 1 .. (calls[q] + 1)
      /\ calls[q] \in 1 .. (calls[q] + 1)
  BY <1>2 DEF CallTypeOK
<1>9. calls' \in [Queries -> Nat] /\ \A r \in Queries : stage'[r] = "asking" => calls'[r] # 0
  BY <1>2, <1>8 DEF CallTypeOK
<1>10. voices' \in [Queries -> SUBSET Nat] /\ \A r \in Queries : voices'[r] \subseteq 1 .. calls'[r]
  <2>1. PICK v \in {voices[q], {}, voices[q] \cup {calls[q]}} : voices' = [voices EXCEPT ![q] = v]
    BY <1>7
  <2>2. v \subseteq 1 .. (calls[q] + 1) /\ v \in SUBSET Nat
    BY <1>8, <2>1 DEF CallTypeOK
  <2> QED BY <1>2, <2>1, <2>2 DEF CallTypeOK
<1>11. CallTypeOK'
  BY <1>2, <1>6, <1>9, <1>10, ModelReplyAssumption DEF CallTypeOK
<1> QED BY <1>4, <1>5, <1>11

LEMMA EndTyped ==
    ASSUME ReplyTyped, NEW q \in Queries, RouteEnds(q) \/ RouteFails(q)
    PROVE  ReplyTyped'
<1> USE DEF ReplyTyped
<1>1. stage[q] = "asking" /\ UNCHANGED <<ready, abandoned, noTools, noStream, woke>>
  BY DEF RouteEnds, RouteFails
<1>2. NextRoute(q) \/ \E how \in {"done", "failed"} : Finish(q, how)
  BY DEF RouteEnds, RouteFails
<1>3. ChainTypeOK' /\ CallTypeOK'
  BY <1>1, <1>2, NextRouteTyped, FinishTyped
<1>4. failures' = failures \/ Problem
  BY DEF RouteEnds, RouteFails
<1>5. cooling' \in {cooling, cooling \cup {Head(plan[q])}}
  BY DEF RouteEnds, RouteFails
<1>6. Head(plan[q]) \in RouteSet
  BY <1>1, HeadIsRoute
<1>7. failures' \in 0 .. MaxFailures
  BY <1>4, ModelReplyAssumption DEF SharedTypeOK, Problem
<1>8. SharedTypeOK'
  BY <1>1, <1>5, <1>6, <1>7 DEF SharedTypeOK
<1> QED BY <1>3, <1>8

LEMMA SharedTyped ==
    ASSUME ReplyTyped,
           \/ \E q \in Queries : DropRequest(q)
           \/ \E route \in RouteSet : Wake(route)
           \/ UNCHANGED modelVars
    PROVE  ReplyTyped'
<1> USE DEF ReplyTyped, chainVars, replyVars, routeVars
<1>1. ASSUME NEW q \in Queries, DropRequest(q)
      PROVE  ReplyTyped'
  BY <1>1 DEF DropRequest, ChainTypeOK, CallTypeOK, SharedTypeOK
<1>2. ASSUME NEW route \in RouteSet, Wake(route)
      PROVE  ReplyTyped'
  <2>1. woke' \in [Queries -> SUBSET RouteSet]
    BY <1>2 DEF Wake, ChainTypeOK
  <2>2. cooling' \subseteq cooling /\ UNCHANGED <<chainVars, replyVars, abandoned, noTools, noStream, failures>>
    BY <1>2 DEF Wake
  <2>3. ChainTypeOK' /\ CallTypeOK'
    BY <2>1, <2>2 DEF ChainTypeOK, CallTypeOK
  <2> QED BY <2>2, <2>3 DEF SharedTypeOK
<1>3. CASE UNCHANGED modelVars
  BY <1>3 DEF modelVars, ChainTypeOK, CallTypeOK, SharedTypeOK
<1> QED BY <1>1, <1>2, <1>3

LEMMA ReplyTypedNext == ASSUME ReplyTyped, [ModelNext]_modelVars PROVE ReplyTyped'
BY LookTyped, AnswerTyped, AgainTyped, EndTyped, SharedTyped DEF ModelNext, ProviderStep

LEMMA ReplyTypedInit == ASSUME ModelInit PROVE ReplyTyped
BY ModelReplyAssumption DEF ModelInit, ReplyTyped, ChainTypeOK, CallTypeOK, SharedTypeOK, Ways

(* The model's type invariant holds in every reachable state: the request    *)
(* that is asking has a route to ask, which is among those it has tried, and *)
(* the answer is made of calls that were made.                               *)
THEOREM ReplyTypeCorrect == ModelSpec => []ReplyTypeOK
<1>1. ReplyTyped => ReplyTypeOK
  BY DEF ReplyTyped, ChainTypeOK, CallTypeOK, SharedTypeOK, ReplyTypeOK, Ways
<1> QED BY <1>1, ReplyTypedInit, ReplyTypedNext, PTL DEF ModelSpec

-----------------------------------------------------------------------------
(* No route is left out *)

\* While a request looks: what it did not find ready has cooled ever since,
\* unless it woke.
Looked(q) == stage[q] = "looked" => RouteSet \ ready[q] \subseteq cooling \cup woke[q]

\* While it asks: each route is tried, planned, or woke in between.
Covered(q) == stage[q] = "asking" => RouteSet \subseteq tried[q] \cup ToSet(plan[q]) \cup woke[q]

AllTried(q) ==
    stage[q] = "failed" /\ ~spoke[q] /\ ready[q] # {} => RouteSet \ tried[q] \subseteq woke[q]

CoverInv == \A q \in Queries : Looked(q) /\ Covered(q) /\ AllTried(q)

\* A step leaves the requests alone but q.
Others(q) ==
    \A r \in Queries \ {q} :
       /\ stage'[r] = stage[r] /\ ready'[r] = ready[r] /\ plan'[r] = plan[r]
       /\ tried'[r] = tried[r] /\ spoke'[r] = spoke[r]

LEMMA OthersCovered ==
    ASSUME ReplyTyped, CoverInv, NEW q \in Queries, Others(q),
           cooling \subseteq cooling', woke' = woke,
           Looked(q)', Covered(q)', AllTried(q)'
    PROVE  CoverInv'
<1>1. ASSUME NEW r \in Queries \ {q}
      PROVE  Looked(r)' /\ Covered(r)' /\ AllTried(r)'
  <2>1. Looked(r) /\ Covered(r) /\ AllTried(r)
    BY DEF CoverInv
  <2>2. /\ stage'[r] = stage[r] /\ ready'[r] = ready[r] /\ plan'[r] = plan[r]
        /\ tried'[r] = tried[r] /\ spoke'[r] = spoke[r]
    BY DEF Others
  <2>3. Looked(r)'
    BY <2>1, <2>2 DEF Looked
  <2>4. Covered(r)'
    BY <2>1, <2>2 DEF Covered
  <2>5. AllTried(r)'
    BY <2>1, <2>2 DEF AllTried
  <2> QED BY <2>3, <2>4, <2>5
<1> QED BY <1>1 DEF CoverInv

\* Trying a plan that covers the routes, with those that were tried and woke.
LEMMA AttemptCovers ==
    ASSUME ReplyTyped, NEW q \in Queries, NEW routes \in Seq(RouteSet), routes # <<>>,
           RouteSet \subseteq tried[q] \cup ToSet(routes) \cup woke[q],
           Attempt(q, routes), UNCHANGED <<ready, woke>>
    PROVE  Others(q) /\ Looked(q)' /\ Covered(q)' /\ AllTried(q)'
<1>1. /\ stage' = [stage EXCEPT ![q] = "asking"] /\ plan' = [plan EXCEPT ![q] = routes]
      /\ tried' = [tried EXCEPT ![q] = @ \cup {Head(routes)}] /\ spoke' = [spoke EXCEPT ![q] = FALSE]
  BY DEF Attempt
<1>2. stage'[q] = "asking" /\ plan'[q] = routes /\ tried[q] \subseteq tried'[q]
  BY <1>1 DEF ReplyTyped, ChainTypeOK
<1>3. Others(q)
  BY <1>1 DEF Others, ReplyTyped, ChainTypeOK, CallTypeOK
<1>4. Covered(q)'
  BY <1>2 DEF Covered
<1> QED BY <1>2, <1>3, <1>4 DEF Looked, AllTried

LEMMA FinishCovers ==
    ASSUME ReplyTyped, NEW q \in Queries, NEW how \in {"done", "failed", "cancelled"},
           stage' = [stage EXCEPT ![q] = how], UNCHANGED <<plan, tried, ready, woke>>,
           \A r \in Queries \ {q} : spoke'[r] = spoke[r],
           how = "failed" /\ ~spoke'[q] /\ ready[q] # {} => RouteSet \ tried[q] \subseteq woke[q]
    PROVE  Others(q) /\ Looked(q)' /\ Covered(q)' /\ AllTried(q)'
<1>1. stage'[q] = how
  BY DEF ReplyTyped, ChainTypeOK
<1>2. Others(q)
  BY DEF Others, ReplyTyped, ChainTypeOK
<1> QED BY <1>1, <1>2 DEF Looked, Covered, AllTried

\* The last route of a plan is tried; the others are in its tail.
LEMMA NextRouteCovers ==
    ASSUME ReplyTyped, CoverInv, NEW q \in Queries, stage[q] = "asking",
           NextRoute(q), UNCHANGED <<ready, woke>>
    PROVE  Others(q) /\ Looked(q)' /\ Covered(q)' /\ AllTried(q)'
<1>1. plan[q] \in Seq(RouteSet) /\ plan[q] # <<>> /\ Head(plan[q]) \in tried[q]
  BY DEF ReplyTyped, ChainTypeOK
<1>2. RouteSet \subseteq tried[q] \cup ToSet(plan[q]) \cup woke[q]
  BY DEF CoverInv, Covered
<1>3. Tail(plan[q]) \in Seq(RouteSet) /\ ToSet(plan[q]) = {Head(plan[q])} \cup ToSet(Tail(plan[q]))
  BY <1>1, ToSetFacts
<1>4. RouteSet \subseteq tried[q] \cup ToSet(Tail(plan[q])) \cup woke[q]
  BY <1>1, <1>2, <1>3
<1>5. CASE Len(plan[q]) > 1
  <2>1. plan[q] \in Seq(RouteSet)
    BY <1>1
  <2>2. Tail(plan[q]) \in Seq(RouteSet) /\ Tail(plan[q]) # <<>>
    BY <1>5, <2>1
  <2> QED BY <1>3, <1>4, <1>5, <2>2, AttemptCovers DEF NextRoute
<1>6. CASE ~ (Len(plan[q]) > 1)
  <2>1. Tail(plan[q]) = <<>>
    BY <1>1, <1>6
  <2>2. ToSet(Tail(plan[q])) = {}
    BY <2>1 DEF ToSet
  <2>3. RouteSet \ tried[q] \subseteq woke[q]
    BY <1>4, <2>2
  <2>4. stage' = [stage EXCEPT ![q] = "failed"] /\ UNCHANGED <<plan, tried, spoke>>
    BY <1>6 DEF NextRoute, Finish, replyVars
  <2> QED BY <2>3, <2>4, FinishCovers
<1> QED BY <1>5, <1>6

LEMMA LookCovers ==
    ASSUME ReplyTyped, CoverInv, NEW q \in Queries, LookForReady(q) \/ LookForCooling(q)
    PROVE  CoverInv'
<1>1. UNCHANGED <<cooling, woke>>
  BY DEF LookForReady, LookForCooling, routeVars
<1>2. CASE LookForReady(q)
  <2>1. /\ stage' = [stage EXCEPT ![q] = "looked"] /\ ready' = [ready EXCEPT ![q] = RouteSet \ cooling]
        /\ UNCHANGED <<plan, tried, spoke>>
    BY <1>2 DEF LookForReady, replyVars
  <2>2. stage'[q] = "looked" /\ ready'[q] = RouteSet \ cooling
    BY <2>1 DEF ReplyTyped, ChainTypeOK
  <2>3. Others(q)
    BY <2>1 DEF Others, ReplyTyped, ChainTypeOK
  <2>4. Looked(q)' /\ Covered(q)' /\ AllTried(q)'
    BY <1>1, <2>2 DEF Looked, Covered, AllTried
  <2> QED BY <1>1, <2>3, <2>4, OthersCovered
<1>3. CASE LookForCooling(q)
  <2>1. stage[q] = "looked" /\ UNCHANGED ready
    BY <1>3 DEF LookForCooling
  <2>2. RouteSet \ ready[q] \subseteq cooling \cup woke[q]
    BY <2>1 DEF CoverInv, Looked
  <2>3. RouteSet \subseteq tried[q] \cup ToSet(PlanFor(q)) \cup woke[q]
    BY <2>2, PlanFacts
  <2>4. CASE Attempt(q, PlanFor(q))
    BY <1>1, <2>1, <2>3, <2>4, PlanFacts, AttemptCovers, OthersCovered
  <2>5. CASE Finish(q, "failed") /\ Among(ready[q]) = <<>>
    <3>1. ToSet(Among(ready[q])) = {} /\ ready[q] \subseteq RouteSet
      BY <2>5 DEF ToSet, ReplyTyped, ChainTypeOK
    <3>2. ready[q] = {}
      BY <3>1, AmongIs
    <3> QED BY <1>1, <2>1, <2>5, <3>2, FinishCovers, OthersCovered DEF Finish, replyVars
  <2> QED BY <1>3, <2>4, <2>5 DEF LookForCooling, PlanFor
<1> QED BY <1>2, <1>3

\* A chunk, a tool round or a repeated call: q asks on, or is over without failing.
LEMMA CallCovers ==
    ASSUME ReplyTyped, CoverInv, NEW q \in Queries,
           \/ StreamChunk(q) \/ WholeText(q) \/ ToolRound(q)
           \/ ToolsRefused(q) \/ ParameterRefused(q) \/ StreamRefused(q) \/ StreamRequired(q)
    PROVE  CoverInv'
<1>1. stage[q] = "asking" /\ UNCHANGED <<ready, plan, tried, cooling, woke>>
  BY DEF StreamChunk, WholeText, ToolRound, ToolsRefused, ParameterRefused, StreamRefused,
         StreamRequired, Again, Asking, routeVars
<1>2. \/ UNCHANGED <<stage, spoke>>
      \/ \E next \in {"asking", "done"} : Yield(q, next)
  BY DEF StreamChunk, WholeText, ToolRound, ToolsRefused, ParameterRefused, StreamRefused,
         StreamRequired, Again, Chunk
<1>3. CASE UNCHANGED <<stage, spoke>>
  BY <1>1, <1>3 DEF CoverInv, Looked, Covered, AllTried
<1>4. CASE \E next \in {"asking", "done"} : Yield(q, next)
  <2>1. PICK next \in {"asking", "done", "cancelled"} :
              /\ stage' = [stage EXCEPT ![q] = next]
              /\ UNCHANGED spoke \/ spoke' = [spoke EXCEPT ![q] = TRUE]
    BY <1>4 DEF Yield
  <2>2. stage'[q] = next /\ \A r \in Queries \ {q} : stage'[r] = stage[r]
    BY <2>1 DEF ReplyTyped, ChainTypeOK
  <2>3. \A r \in Queries \ {q} : spoke'[r] = spoke[r]
    BY <2>1 DEF ReplyTyped, CallTypeOK
  <2>4. Others(q)
    BY <1>1, <2>2, <2>3 DEF Others
  <2>5. Covered(q)
    BY DEF CoverInv
  <2>6. Looked(q)' /\ Covered(q)' /\ AllTried(q)'
    BY <1>1, <2>2, <2>5 DEF Looked, Covered, AllTried
  <2> QED BY <1>1, <2>4, <2>6, OthersCovered
<1> QED BY <1>2, <1>3, <1>4

LEMMA EndCovers ==
    ASSUME ReplyTyped, CoverInv, NEW q \in Queries, RouteEnds(q) \/ RouteFails(q)
    PROVE  CoverInv'
<1>1. stage[q] = "asking" /\ UNCHANGED <<ready, woke>> /\ cooling \subseteq cooling'
  BY DEF RouteEnds, RouteFails
<1>2. \/ NextRoute(q)
      \/ spoke[q] /\ \E how \in {"done", "failed"} : Finish(q, how)
  BY DEF RouteEnds, RouteFails
<1>3. CASE NextRoute(q)
  BY <1>1, <1>3, NextRouteCovers, OthersCovered
<1>4. CASE spoke[q] /\ \E how \in {"done", "failed"} : Finish(q, how)
  <2>1. PICK how \in {"done", "failed"} : Finish(q, how)
    BY <1>4
  <2>2. stage' = [stage EXCEPT ![q] = how] /\ UNCHANGED <<plan, tried, spoke>>
    BY <2>1 DEF Finish, replyVars
  <2>3. Others(q) /\ Looked(q)' /\ Covered(q)' /\ AllTried(q)'
    BY <1>1, <1>4, <2>2, FinishCovers
  <2> QED BY <1>1, <2>3, OthersCovered
<1> QED BY <1>2, <1>3, <1>4

LEMMA SharedCovers ==
    ASSUME ReplyTyped, CoverInv,
           \/ \E q \in Queries : DropRequest(q)
           \/ \E route \in RouteSet : Wake(route)
           \/ UNCHANGED modelVars
    PROVE  CoverInv'
<1>1. ASSUME UNCHANGED <<chainVars, replyVars, cooling, woke>>
      PROVE  CoverInv'
  BY <1>1 DEF chainVars, replyVars, CoverInv, Looked, Covered, AllTried
<1>2. ASSUME NEW route \in RouteSet, Wake(route)
      PROVE  CoverInv'
  <2> SUFFICES ASSUME NEW q \in Queries
               PROVE  Looked(q)' /\ Covered(q)' /\ AllTried(q)'
    BY DEF CoverInv
  <2>1. UNCHANGED <<stage, ready, plan, tried, spoke>> /\ cooling' = cooling \ {route}
    BY <1>2 DEF Wake, chainVars, replyVars
  <2>2. woke'[q] = IF stage[q] = "looked" /\ route \notin ready[q] THEN woke[q] \cup {route} ELSE woke[q]
    BY <1>2 DEF Wake
  <2>3. Looked(q) /\ Covered(q) /\ AllTried(q)
    BY DEF CoverInv
  <2>4. Looked(q)'
    BY <2>1, <2>2, <2>3 DEF Looked
  <2>5. Covered(q)' /\ AllTried(q)'
    BY <2>1, <2>2, <2>3 DEF Covered, AllTried
  <2> QED BY <2>4, <2>5
<1>3. CASE \E q \in Queries : DropRequest(q)
  BY <1>1, <1>3 DEF DropRequest, routeVars
<1>4. CASE UNCHANGED modelVars
  BY <1>1, <1>4 DEF modelVars, routeVars
<1> QED BY <1>2, <1>3, <1>4

LEMMA CoverNext == ASSUME ReplyTyped, CoverInv, [ModelNext]_modelVars PROVE CoverInv'
BY LookCovers, CallCovers, EndCovers, SharedCovers DEF ModelNext, ProviderStep

LEMMA CoverInit == ASSUME ModelInit PROVE CoverInv
BY DEF ModelInit, CoverInv, Looked, Covered, AllTried

(* Whatever other requests do to the cooldowns, and however many there are:  *)
(* a request that failed and has shown nothing was refused by every route,   *)
(* but for those whose cooldown ended between its two looks, or found all of *)
(* them cooling (_stream_with_fallbacks).  The cooldowns are shared and may  *)
(* change between the looks; CoverInv says what each of them still vouches   *)
(* for.                                                                      *)
THEOREM NoRouteLeftOutHolds == ModelSpec => []NoRouteLeftOut
<1>1. ReplyTyped /\ CoverInv => NoRouteLeftOut
  BY DEF CoverInv, AllTried, NoRouteLeftOut
<1>2. ModelInit => ReplyTyped /\ CoverInv
  BY ReplyTypedInit, CoverInit
<1>3. ReplyTyped /\ CoverInv /\ [ModelNext]_modelVars => (ReplyTyped /\ CoverInv)'
  BY ReplyTypedNext, CoverNext
<1> QED BY <1>1, <1>2, <1>3, PTL DEF ModelSpec

=============================================================================

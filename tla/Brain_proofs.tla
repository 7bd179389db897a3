---------------------------- MODULE Brain_proofs ----------------------------
(***************************************************************************)
(* Proofs about the sign-in, for any number of threads, tokens and         *)
(* failures; and that every behaviour of MCBrain is one of each of its     *)
(* parts, so that what is proved of a part holds of the composition.       *)
(***************************************************************************)
EXTENDS MCBrain, AddonHost_proofs, Agents_proofs, ModelReply_proofs

-----------------------------------------------------------------------------
(* The sign-in *)

LockStages == {"refreshing", "saving", "writing"}

(* _refresh_lock of a process *)
RefreshLockInv ==
    \A a, b \in Askers :
       /\ a # b /\ ProcessOf[a] = ProcessOf[b]
       /\ session[a] \in LockStages
       => session[b] \notin LockStages

(* What is about to be saved is known to its thread alone. *)
FreshInv ==
    \A a \in Threads : session[a] \in {"saving", "writing"} =>
       /\ own[a] \in Tokens
       /\ spentBy[own[a]] = {}
       /\ own[a] # keyring /\ own[a] # tokenFile
       /\ \A b \in Threads \ {a} : own[b] # own[a]

(* Only what was issued is spent, stored or in hand; the file is for failures. *)
IssuedInv ==
    /\ \A a \in Threads : own[a] <= issued
    /\ \A t \in Tokens : spentBy[t] # {} => t <= issued
    /\ \A a \in Askers : session[a] \in {"waiting", "refreshing"} => own[a] \in Tokens
    /\ mishaps = 0 => tokenFile = 0
    /\ \A a \in Threads : session[a] = "writing" => mishaps # 0

(* Tokens that one process has spent are replaced before its lock is free. *)
Replaced(p, t) ==
    /\ keyring = t => \E a \in Askers : ProcessOf[a] = p /\ session[a] = "saving"
    /\ \A a \in Askers :
          ProcessOf[a] = p /\ session[a] = "refreshing" /\ own[a] = t => t \in kept

SpentInv ==
    \A p \in Processes, t \in Tokens :
       spentBy[t] = {p} /\ mishaps = 0 => Replaced(p, t)

SignInInv == SignInTypeOK /\ RefreshLockInv /\ FreshInv /\ IssuedInv /\ SpentInv /\ SpentTwiceOnlyIf

-----------------------------------------------------------------------------
(* Types; a stage of a thread names what it has in hand. *)
LEMMA TypeStep ==
    ASSUME SignInInv, [SignInNext]_signInVars
    PROVE  SignInTypeOK'
<1> USE SignInAssumption DEF storeVars, providerVars, Threads, SignInInv, SignInTypeOK, IssuedInv, FreshInv, Tokens, Processes
<1>1. ASSUME NEW a \in Askers, LookForToken(a)
     PROVE  SignInTypeOK'
  BY <1>1 DEF LookForToken, GetTokens, Mishap, Moves
<1>2. ASSUME NEW a \in Askers, TakeRefreshLock(a)
     PROVE  SignInTypeOK'
  BY <1>2 DEF TakeRefreshLock, GetTokens, Mishap, Moves, Reread, RefreshLockFree
<1>3. ASSUME NEW a \in Askers, Refresh(a)
     PROVE  SignInTypeOK'
  <2>1. own[a] \in Tokens /\ own[a] \in 1 .. issued /\ issued \in Nat
    BY <1>3 DEF Refresh
  <2>2. CASE /\ spentBy[own[a]] = {} /\ issued < MaxTokens /\ issued' = issued + 1 /\ reused' = reused
             /\ Moves(a, "saving", issued + 1) /\ UNCHANGED mishaps
    BY <1>3, <2>1, <2>2 DEF Refresh, Mishap, Moves
  <2>3. CASE /\ spentBy[own[a]] = {} /\ issued < MaxTokens /\ issued' = issued + 1 /\ reused' = reused
             /\ Moves(a, "idle", 0) /\ Mishap
    BY <1>3, <2>1, <2>3 DEF Refresh, Mishap, Moves
  <2>4. CASE /\ reused' = reused \cup {own[a]} /\ Moves(a, "idle", 0) /\ UNCHANGED <<issued, mishaps>>
             /\ spentBy[own[a]] # {}
    BY <1>3, <2>1, <2>4 DEF Refresh, Mishap, Moves
  <2> QED BY <1>3, <2>2, <2>3, <2>4 DEF Refresh
<1>4. ASSUME NEW a \in Logins, SignsIn(a)
     PROVE  SignInTypeOK'
  BY <1>4 DEF SignsIn, Moves
<1>5. ASSUME NEW a \in Threads, SaveInKeyring(a)
     PROVE  SignInTypeOK'
  <2>1. CASE keyring' = own[a] /\ Returned(a) /\ UNCHANGED mishaps
    BY <1>5, <2>1 DEF SaveInKeyring, Moves, Returned
  <2>2. CASE Moves(a, "writing", own[a]) /\ Mishap /\ UNCHANGED keyring
    BY <1>5, <2>2 DEF SaveInKeyring, Moves, Mishap
  <2> QED BY <1>5, <2>1, <2>2 DEF SaveInKeyring
<1>6. ASSUME NEW a \in Threads, SaveInFile(a)
     PROVE  SignInTypeOK'
  BY <1>6 DEF SaveInFile, Moves, Returned
<1>7. CASE ClearKeyring
  BY <1>7 DEF ClearKeyring, Mishap
<1>8. CASE ClearFile
  BY <1>8 DEF ClearFile
<1>9. ASSUME NEW t \in Tokens, Ages(t)
     PROVE  SignInTypeOK'
  BY <1>9 DEF Ages
<1>10. CASE UNCHANGED signInVars
  BY <1>10 DEF signInVars
<1> QED BY <1>1, <1>2, <1>3, <1>4, <1>5, <1>6, <1>7, <1>8, <1>9, <1>10 DEF SignInNext, AskerStep

(* The lock is taken only when it is free. *)
LEMMA LockStep ==
    ASSUME SignInInv, [SignInNext]_signInVars
    PROVE  RefreshLockInv'
<1> USE SignInAssumption DEF storeVars, providerVars, Threads, SignInInv, SignInTypeOK, RefreshLockInv, LockStages
<1>1. ASSUME NEW a \in Askers, LookForToken(a)
     PROVE  RefreshLockInv'
  BY <1>1 DEF LookForToken, GetTokens, Mishap, Moves
<1>2. ASSUME NEW a \in Askers, TakeRefreshLock(a)
     PROVE  RefreshLockInv'
  BY <1>2 DEF TakeRefreshLock, GetTokens, Mishap, Moves, Reread, RefreshLockFree
<1>3. ASSUME NEW a \in Askers, Refresh(a)
     PROVE  RefreshLockInv'
  BY <1>3 DEF Refresh, Mishap, Moves
<1>4. ASSUME NEW a \in Logins, SignsIn(a)
     PROVE  RefreshLockInv'
  BY <1>4 DEF SignsIn, Moves
<1>5. ASSUME NEW a \in Threads, SaveInKeyring(a)
     PROVE  RefreshLockInv'
  BY <1>5 DEF SaveInKeyring, Mishap, Moves, Returned
<1>6. ASSUME NEW a \in Threads, SaveInFile(a)
     PROVE  RefreshLockInv'
  BY <1>6 DEF SaveInFile, Moves, Returned
<1>7. CASE ClearKeyring
  BY <1>7 DEF ClearKeyring, Mishap
<1>8. CASE ClearFile
  BY <1>8 DEF ClearFile
<1>9. ASSUME NEW t \in Tokens, Ages(t)
     PROVE  RefreshLockInv'
  BY <1>9 DEF Ages
<1>10. CASE UNCHANGED signInVars
  BY <1>10 DEF signInVars
<1> QED BY <1>1, <1>2, <1>3, <1>4, <1>5, <1>6, <1>7, <1>8, <1>9, <1>10 DEF SignInNext, AskerStep

(* What is spent, stored or in hand was issued. *)
LEMMA IssuedStep ==
    ASSUME SignInInv, [SignInNext]_signInVars
    PROVE  IssuedInv'
<1> USE SignInAssumption DEF storeVars, providerVars, Threads, SignInInv, SignInTypeOK, IssuedInv, FreshInv, Tokens
<1>1. ASSUME NEW a \in Askers, LookForToken(a)
     PROVE  IssuedInv'
  BY <1>1 DEF LookForToken, GetTokens, Mishap, Moves
<1>2. ASSUME NEW a \in Askers, TakeRefreshLock(a)
     PROVE  IssuedInv'
  BY <1>2 DEF TakeRefreshLock, GetTokens, Mishap, Moves, Reread, RefreshLockFree
<1>3. ASSUME NEW a \in Askers, Refresh(a)
     PROVE  IssuedInv'
  <2>1. own[a] \in Tokens /\ own[a] \in 1 .. issued /\ issued \in Nat
    BY <1>3 DEF Refresh
  <2>2. CASE /\ spentBy[own[a]] = {} /\ issued < MaxTokens /\ issued' = issued + 1 /\ reused' = reused
             /\ Moves(a, "saving", issued + 1) /\ UNCHANGED mishaps
    BY <1>3, <2>1, <2>2 DEF Refresh, Mishap, Moves
  <2>3. CASE /\ spentBy[own[a]] = {} /\ issued < MaxTokens /\ issued' = issued + 1 /\ reused' = reused
             /\ Moves(a, "idle", 0) /\ Mishap
    BY <1>3, <2>1, <2>3 DEF Refresh, Mishap, Moves
  <2>4. CASE /\ reused' = reused \cup {own[a]} /\ Moves(a, "idle", 0) /\ UNCHANGED <<issued, mishaps>>
             /\ spentBy[own[a]] # {}
    BY <1>3, <2>1, <2>4 DEF Refresh, Mishap, Moves
  <2> QED BY <1>3, <2>2, <2>3, <2>4 DEF Refresh
<1>4. ASSUME NEW a \in Logins, SignsIn(a)
     PROVE  IssuedInv'
  <2>1. issued \in Nat /\ issued' = issued + 1 /\ own' = [own EXCEPT ![a] = issued + 1]
    BY <1>4 DEF SignsIn, Moves
  <2>2. \A b \in Threads : own'[b] <= issued'
    BY <2>1
  <2>3. session' = [session EXCEPT ![a] = "saving"] /\ UNCHANGED <<spentBy, tokenFile, mishaps>>
    BY <1>4 DEF SignsIn, Moves
  <2>4. \A t \in Tokens : spentBy'[t] # {} => t <= issued'
    BY <2>1, <2>3
  <2>5. \A b \in Askers : session'[b] \in {"waiting", "refreshing"} => own'[b] \in Tokens
    BY <2>1, <2>3
  <2>6. \A b \in Threads : session'[b] = "writing" => mishaps' # 0
    BY <2>3
  <2> QED BY <2>2, <2>3, <2>4, <2>5, <2>6
<1>5. ASSUME NEW a \in Threads, SaveInKeyring(a)
     PROVE  IssuedInv'
  <2>1. CASE keyring' = own[a] /\ Returned(a) /\ UNCHANGED mishaps
    BY <1>5, <2>1 DEF SaveInKeyring, Moves, Returned
  <2>2. CASE Moves(a, "writing", own[a]) /\ Mishap /\ UNCHANGED keyring
    BY <1>5, <2>2 DEF SaveInKeyring, Moves, Mishap
  <2> QED BY <1>5, <2>1, <2>2 DEF SaveInKeyring
<1>6. ASSUME NEW a \in Threads, SaveInFile(a)
     PROVE  IssuedInv'
  BY <1>6 DEF SaveInFile, Moves, Returned
<1>7. CASE ClearKeyring
  BY <1>7 DEF ClearKeyring, Mishap
<1>8. CASE ClearFile
  BY <1>8 DEF ClearFile
<1>9. ASSUME NEW t \in Tokens, Ages(t)
     PROVE  IssuedInv'
  BY <1>9 DEF Ages
<1>10. CASE UNCHANGED signInVars
  BY <1>10 DEF signInVars
<1> QED BY <1>1, <1>2, <1>3, <1>4, <1>5, <1>6, <1>7, <1>8, <1>9, <1>10 DEF SignInNext, AskerStep

(* New tokens come from the provider alone. *)
LEMMA FreshStep ==
    ASSUME SignInInv, [SignInNext]_signInVars
    PROVE  FreshInv'
<1> USE SignInAssumption DEF storeVars, providerVars, Threads, SignInInv, SignInTypeOK, IssuedInv, FreshInv, Tokens
<1>1. ASSUME NEW a \in Askers, LookForToken(a)
     PROVE  FreshInv'
  BY <1>1 DEF LookForToken, GetTokens, Mishap, Moves
<1>2. ASSUME NEW a \in Askers, TakeRefreshLock(a)
     PROVE  FreshInv'
  BY <1>2 DEF TakeRefreshLock, GetTokens, Mishap, Moves, Reread, RefreshLockFree
<1>3. ASSUME NEW a \in Askers, Refresh(a)
     PROVE  FreshInv'
  <2>1. own[a] \in Tokens /\ own[a] \in 1 .. issued /\ issued \in Nat
    BY <1>3 DEF Refresh
  <2>2. CASE /\ spentBy[own[a]] = {} /\ issued < MaxTokens /\ issued' = issued + 1 /\ reused' = reused
             /\ Moves(a, "saving", issued + 1) /\ UNCHANGED mishaps
    BY <1>3, <2>1, <2>2 DEF Refresh, Mishap, Moves
  <2>3. CASE /\ spentBy[own[a]] = {} /\ issued < MaxTokens /\ issued' = issued + 1 /\ reused' = reused
             /\ Moves(a, "idle", 0) /\ Mishap
    BY <1>3, <2>1, <2>3 DEF Refresh, Mishap, Moves
  <2>4. CASE /\ reused' = reused \cup {own[a]} /\ Moves(a, "idle", 0) /\ UNCHANGED <<issued, mishaps>>
             /\ spentBy[own[a]] # {}
    BY <1>3, <2>1, <2>4 DEF Refresh, Mishap, Moves
  <2> QED BY <1>3, <2>2, <2>3, <2>4 DEF Refresh
<1>4. ASSUME NEW a \in Logins, SignsIn(a)
     PROVE  FreshInv'
  BY <1>4 DEF SignsIn, Moves
<1>5. ASSUME NEW a \in Threads, SaveInKeyring(a)
     PROVE  FreshInv'
  BY <1>5 DEF SaveInKeyring, Mishap, Moves, Returned
<1>6. ASSUME NEW a \in Threads, SaveInFile(a)
     PROVE  FreshInv'
  BY <1>6 DEF SaveInFile, Moves, Returned
<1>7. CASE ClearKeyring
  BY <1>7 DEF ClearKeyring, Mishap
<1>8. CASE ClearFile
  BY <1>8 DEF ClearFile
<1>9. ASSUME NEW t \in Tokens, Ages(t)
     PROVE  FreshInv'
  BY <1>9 DEF Ages
<1>10. CASE UNCHANGED signInVars
  BY <1>10 DEF signInVars
<1> QED BY <1>1, <1>2, <1>3, <1>4, <1>5, <1>6, <1>7, <1>8, <1>9, <1>10 DEF SignInNext, AskerStep

(* A second refresh in one process reads what the first one saved. *)
LEMMA SpentStep ==
    ASSUME SignInInv, [SignInNext]_signInVars
    PROVE  SpentInv'
<1> USE SignInAssumption DEF storeVars, providerVars, Threads, SignInInv, SignInTypeOK, RefreshLockInv, LockStages, FreshInv, IssuedInv, SpentInv, Replaced, Processes, Tokens
<1> SUFFICES ASSUME NEW p \in Processes, NEW t \in Tokens, spentBy'[t] = {p}, mishaps' = 0
             PROVE  Replaced(p, t)'
  OBVIOUS
<1>1. ASSUME NEW a \in Askers, LookForToken(a)
     PROVE  Replaced(p, t)'
  <2>1. /\ session[a] = "idle" /\ session' = [session EXCEPT ![a] = "waiting"]
        /\ UNCHANGED <<keyring, spentBy, kept>> /\ mishaps = 0
        /\ \A b \in Askers \ {a} : own'[b] = own[b]
    BY <1>1 DEF LookForToken, GetTokens, Mishap, Moves
  <2>2. Replaced(p, t)
    BY <2>1
  <2> QED BY <2>1, <2>2
<1>2. ASSUME NEW a \in Askers, TakeRefreshLock(a)
     PROVE  Replaced(p, t)'
  <2>1. PICK found \in {keyring, tokenFile} :
          /\ GetTokens(found)
          /\ kept' = IF found = 0 THEN kept \cup {own[a]} ELSE kept
          /\ IF Reread(a, found) \in expired
             THEN Moves(a, "refreshing", Reread(a, found))
             ELSE Moves(a, "idle", 0)
    BY <1>2 DEF TakeRefreshLock
  <2>2. /\ session[a] = "waiting" /\ RefreshLockFree(a)
        /\ UNCHANGED <<keyring, spentBy>> /\ mishaps = 0
        /\ kept \subseteq kept'
        /\ \A b \in Askers \ {a} : session'[b] = session[b] /\ own'[b] = own[b]
    BY <1>2, <2>1 DEF TakeRefreshLock, GetTokens, Mishap, Moves
  <2>3. Replaced(p, t)
    BY <2>2
  <2>4. found = keyring
    BY <2>1, <2>2 DEF GetTokens, Mishap
  <2>5. keyring' = t => \E b \in Askers : ProcessOf[b] = p /\ session'[b] = "saving"
    BY <2>2, <2>3
  <2>6. ASSUME ProcessOf[a] = p, session'[a] = "refreshing", own'[a] = t
        PROVE  t \in kept'
    <3>1. Reread(a, found) = t
      BY <2>1, <2>6 DEF Moves
    <3>2. CASE found = 0
      BY <2>1, <3>1, <3>2 DEF Reread
    <3>3. CASE found # 0
      <4>1. keyring = t
        BY <2>4, <3>1, <3>3 DEF Reread
      <4> QED BY <2>2, <2>3, <2>6, <4>1 DEF RefreshLockFree
    <3> QED BY <3>2, <3>3
  <2> QED BY <2>2, <2>3, <2>5, <2>6
<1>3. ASSUME NEW a \in Askers, Refresh(a)
     PROVE  Replaced(p, t)'
  <2>1. own[a] \in Tokens /\ own[a] \in 1 .. issued /\ issued \in Nat
    BY <1>3 DEF Refresh
  <2>2. /\ spentBy' = [spentBy EXCEPT ![own[a]] = @ \cup {ProcessOf[a]}]
        /\ session[a] = "refreshing" /\ UNCHANGED <<keyring, kept>>
        /\ session'[a] # "refreshing" /\ ProcessOf[a] \in Processes /\ mishaps = 0
        /\ \A b \in Askers \ {a} : session'[b] = session[b] /\ own'[b] = own[b]
    BY <1>3, <2>1 DEF Refresh, Mishap, Moves
  <2>3. CASE spentBy[t] = {p}
    <3>1. Replaced(p, t)
      BY <2>2, <2>3
    <3>2. \A b \in Askers : session[b] = "saving" => session'[b] = "saving"
      BY <2>2
    <3>3. \A b \in Askers : session'[b] = "refreshing" => session[b] = "refreshing" /\ own'[b] = own[b]
      BY <2>2
    <3> QED BY <2>2, <3>1, <3>2, <3>3
  <2>4. CASE spentBy[t] # {p}
    <3>1. own[a] = t /\ spentBy[t] = {} /\ ProcessOf[a] = p
      BY <2>1, <2>2, <2>4
    <3>2. session'[a] = "saving"
      BY <1>3, <2>2, <3>1 DEF Refresh, Mishap, Moves
    <3>3. \A b \in Askers \ {a} : ProcessOf[b] = p => session'[b] # "refreshing"
      BY <2>2, <3>1
    <3> QED BY <2>2, <3>1, <3>2, <3>3
  <2> QED BY <2>3, <2>4
<1>4. ASSUME NEW a \in Logins, SignsIn(a)
     PROVE  Replaced(p, t)'
  BY <1>4 DEF SignsIn, Moves
<1>5. ASSUME NEW a \in Threads, SaveInKeyring(a)
     PROVE  Replaced(p, t)'
  <2>1. CASE keyring' = own[a] /\ Returned(a) /\ UNCHANGED mishaps
    BY <1>5, <2>1 DEF SaveInKeyring, Moves, Returned
  <2>2. CASE Moves(a, "writing", own[a]) /\ Mishap /\ UNCHANGED keyring
    BY <1>5, <2>2 DEF SaveInKeyring, Moves, Mishap
  <2> QED BY <1>5, <2>1, <2>2 DEF SaveInKeyring
<1>6. ASSUME NEW a \in Threads, SaveInFile(a)
     PROVE  Replaced(p, t)'
  BY <1>6 DEF SaveInFile, Moves, Returned
<1>7. CASE ClearKeyring
  BY <1>7 DEF ClearKeyring, Mishap
<1>8. CASE ClearFile
  BY <1>8 DEF ClearFile
<1>9. ASSUME NEW u \in Tokens, Ages(u)
     PROVE  Replaced(p, t)'
  BY <1>9 DEF Ages
<1>10. CASE UNCHANGED signInVars
  BY <1>10 DEF signInVars
<1> QED BY <1>1, <1>2, <1>3, <1>4, <1>5, <1>6, <1>7, <1>8, <1>9, <1>10 DEF SignInNext, AskerStep

(* Only a refresh sends a token. *)
LEMMA TwiceStep ==
    ASSUME SignInInv, [SignInNext]_signInVars
    PROVE  SpentTwiceOnlyIf'
<1> USE SignInAssumption DEF storeVars, providerVars, Threads, SignInInv, SignInTypeOK, IssuedInv, SpentInv, SpentTwiceOnlyIf, Processes
<1>1. ASSUME NEW a \in Askers, LookForToken(a)
     PROVE  SpentTwiceOnlyIf'
  BY <1>1 DEF LookForToken, GetTokens, Mishap, Moves
<1>2. ASSUME NEW a \in Askers, TakeRefreshLock(a)
     PROVE  SpentTwiceOnlyIf'
  BY <1>2 DEF TakeRefreshLock, GetTokens, Mishap, Moves, Reread, RefreshLockFree
<1>3. ASSUME NEW a \in Askers, Refresh(a)
     PROVE  SpentTwiceOnlyIf'
  <2>1. /\ own[a] \in Tokens /\ session[a] = "refreshing" /\ ProcessOf[a] \in Processes
        /\ spentBy' = [spentBy EXCEPT ![own[a]] = @ \cup {ProcessOf[a]}]
        /\ mishaps' \in {mishaps, mishaps + 1} /\ UNCHANGED kept
    BY <1>3 DEF Refresh, Mishap, Moves
  <2>2. \A t \in reused : spentBy'[t] = Processes \/ t \in kept' \/ mishaps' > 0
    <3>1. \A t \in Tokens : spentBy[t] = Processes => spentBy'[t] = Processes
      BY <2>1
    <3>2. reused \subseteq Tokens
      BY DEF Tokens
    <3>3. \A t \in reused : spentBy[t] = Processes \/ t \in kept \/ mishaps > 0
      OBVIOUS
    <3>4. mishaps > 0 => mishaps' > 0
      BY <2>1
    <3> QED BY <2>1, <3>1, <3>2, <3>3, <3>4
  <2>3. CASE reused' = reused
    BY <2>2, <2>3
  <2>4. CASE reused' = reused \cup {own[a]} /\ spentBy[own[a]] # {} /\ UNCHANGED mishaps
    <3>1. CASE mishaps > 0
      BY <2>1, <2>4, <3>1
    <3>2. CASE mishaps = 0 /\ spentBy[own[a]] = {ProcessOf[a]}
      <4>1. own[a] \in kept
        BY <2>1, <3>2 DEF Replaced
      <4> QED BY <2>1, <2>2, <2>4, <4>1
    <3>3. CASE mishaps = 0 /\ spentBy[own[a]] # {ProcessOf[a]}
      <4>1. spentBy'[own[a]] = Processes
        BY <2>1, <2>4, <3>3
      <4> QED BY <2>1, <2>2, <2>4, <4>1
    <3> QED BY <3>1, <3>2, <3>3
  <2> QED BY <1>3, <2>3, <2>4 DEF Refresh
<1>4. ASSUME NEW a \in Logins, SignsIn(a)
     PROVE  SpentTwiceOnlyIf'
  BY <1>4 DEF SignsIn, Moves
<1>5. ASSUME NEW a \in Threads, SaveInKeyring(a)
     PROVE  SpentTwiceOnlyIf'
  BY <1>5 DEF SaveInKeyring, Mishap, Moves, Returned
<1>6. ASSUME NEW a \in Threads, SaveInFile(a)
     PROVE  SpentTwiceOnlyIf'
  BY <1>6 DEF SaveInFile, Moves, Returned
<1>7. CASE ClearKeyring
  BY <1>7 DEF ClearKeyring, Mishap
<1>8. CASE ClearFile
  BY <1>8 DEF ClearFile
<1>9. ASSUME NEW t \in Tokens, Ages(t)
     PROVE  SpentTwiceOnlyIf'
  BY <1>9 DEF Ages
<1>10. CASE UNCHANGED signInVars
  BY <1>10 DEF signInVars
<1> QED BY <1>1, <1>2, <1>3, <1>4, <1>5, <1>6, <1>7, <1>8, <1>9, <1>10 DEF SignInNext, AskerStep

LEMMA InvInit == SignInInit => SignInInv
BY SignInAssumption DEF SignInInit, SignInInv, SignInTypeOK, RefreshLockInv, LockStages, FreshInv, IssuedInv,
   SpentInv, Replaced, SpentTwiceOnlyIf, Threads, Tokens, Processes

LEMMA InvHolds == SignInSpec => []SignInInv
<1>1. SignInInv /\ [SignInNext]_signInVars => SignInInv'
  BY TypeStep, LockStep, IssuedStep, FreshStep, SpentStep, TwiceStep DEF SignInInv
<1> QED BY InvInit, <1>1, PTL DEF SignInSpec

-----------------------------------------------------------------------------
(* Type correctness: the stages of get_valid_access_token, save_tokens and *)
(* clear_tokens, and tokens that the provider did issue.                   *)
THEOREM SignInTypeCorrect == SignInSpec => []SignInTypeOK
<1>1. SignInInv => SignInTypeOK
  BY DEF SignInInv
<1> QED BY InvHolds, <1>1, PTL

(* _refresh_lock with its second read of the store keeps the threads of    *)
(* one process from sending a refresh token twice, as long as the store    *)
(* has tokens and nothing fails.                                           *)
THEOREM SpentTwiceOnlyIfHolds == SignInSpec => []SpentTwiceOnlyIf
<1>1. SignInInv => SpentTwiceOnlyIf
  BY DEF SignInInv
<1> QED BY InvHolds, <1>1, PTL

-----------------------------------------------------------------------------
(* The composition *)

allVars == <<part, addonVars, roundVars, turnVars, modelVars, signInVars>>

(* A step is one of one part, and leaves the others alone. *)
LEMMA OnePartMoves ==
    [Next]_allVars => /\ [AddonNext]_addonVars /\ [RoundNext]_roundVars
                      /\ [TurnsNext]_turnVars /\ [ModelNext]_modelVars
                      /\ [SignInNext]_signInVars
BY DEF Next, allVars

(* The parts share no state: each of them behaves as it does on its own.   *)
THEOREM PartsOfTheBrain ==
    Spec => AddonSpec /\ RoundSpec /\ TurnsSpec /\ ModelSpec /\ SignInSpec
<1>1. Init => AddonInit /\ RoundInit /\ TurnsInit /\ ModelInit /\ SignInInit
  BY DEF Init
<1>2. Spec => Init /\ [][Next]_allVars
  BY DEF Spec, allVars
<1> QED
  BY <1>1, <1>2, OnePartMoves, PTL
     DEF AddonSpec, RoundSpec, TurnsSpec, ModelSpec, SignInSpec

(* Every variable of the brain keeps its type, for any number of threads,  *)
(* agents, teams, requests and routes.                                     *)
THEOREM BrainTypeCorrect == Spec => []TypeOK
<1>1. AddonTypeOK /\ RoundTypeOK /\ TurnsTypeOK /\ ReplyTypeOK /\ SignInTypeOK => TypeOK
  BY DEF TypeOK
<1> QED
  BY <1>1, PartsOfTheBrain, AddonTypeCorrect, RoundTypeCorrect, TurnsTypeCorrect,
     ReplyTypeCorrect, SignInTypeCorrect, PTL

=============================================================================

------------------------------- MODULE SignIn -------------------------------
(***************************************************************************)
(* The ChatGPT sign-in of core/auth/chatgpt.py.  Threads of the brain and  *)
(* of the UI worker need an access token and refresh it when it is about   *)
(* to expire; a refresh token is good for one refresh, which yields the    *)
(* next one.  The tokens are in the keyring, or in a file if it fails,     *)
(* where the user's sign-ins and sign-outs write, too.  Tokens are         *)
(* numbered in the order in which the provider issues them; 0 is none.     *)
(***************************************************************************)
EXTENDS Naturals

CONSTANTS
    Askers,        \* threads that call get_valid_access_token
    Logins,        \* threads of start_browser_login and start_device_login
    ProcessOf,     \* the process of each asker, with a _refresh_lock of its own
    MaxTokens,     \* bound: tokens the provider issues
    MaxMishaps     \* bound: failures of the keyring and lost answers

Tokens == 1 .. MaxTokens
Processes == {"brain", "ui"}
Threads == Askers \cup Logins

ASSUME SignInAssumption ==
    /\ Askers \cap Logins = {}
    /\ ProcessOf \in [Askers -> Processes]
    /\ MaxTokens \in Nat \ {0} /\ MaxMishaps \in Nat

VARIABLES
    keyring, tokenFile,    \* the tokens stored
    issued,      \* the newest tokens
    expired,     \* those whose access token _needs_refresh
    session,     \* where each thread is
    own,         \* the tokens it has in hand
    signOut,     \* where clear_tokens is
    spentBy,     \* which processes have sent a refresh token
    reused,      \* those that were sent twice: the provider ends the sign-in
    kept,        \* history: those that a thread kept as the store was empty
    mishaps      \* what has failed

storeVars == <<keyring, tokenFile, signOut>>
providerVars == <<issued, expired, spentBy, reused>>
signInVars == <<storeVars, providerVars, session, own, kept, mishaps>>

SignInTypeOK ==
    /\ {keyring, tokenFile, issued} \subseteq 0 .. issued /\ issued <= MaxTokens
    /\ session \in [Threads -> {"idle", "waiting", "refreshing", "saving", "writing", "done"}]
    /\ own \in [Threads -> 0 .. MaxTokens]
    /\ signOut \in {"before", "keyring_cleared", "after"}
    /\ spentBy \in [Tokens -> SUBSET Processes]
    /\ expired \cup reused \cup kept \subseteq 1 .. issued
    /\ mishaps \in 0 .. MaxMishaps

SignInInit ==
    /\ keyring = 1
    /\ tokenFile = 0
    /\ issued = 1
    /\ expired = {}
    /\ session = [a \in Threads |-> "idle"]
    /\ own = [a \in Threads |-> 0]
    /\ signOut = "before"
    /\ spentBy = [t \in Tokens |-> {}]
    /\ reused = {}
    /\ kept = {}
    /\ mishaps = 0

-----------------------------------------------------------------------------
Mishap == mishaps < MaxMishaps /\ mishaps' = mishaps + 1

\* get_tokens: the file if the keyring has none, or cannot be read
GetTokens(found) ==
    \/ found = (IF keyring = 0 THEN tokenFile ELSE keyring) /\ UNCHANGED mishaps
    \/ found = tokenFile /\ keyring # 0 /\ Mishap

Moves(a, stage, tokens) ==
    /\ session' = [session EXCEPT ![a] = stage]
    /\ own' = [own EXCEPT ![a] = tokens]

(* get_valid_access_token, before the lock *)
LookForToken(a) ==
    /\ session[a] = "idle"
    /\ \E found \in {keyring, tokenFile} \cap expired :
          GetTokens(found) /\ Moves(a, "waiting", found)
    /\ UNCHANGED <<storeVars, providerVars, kept>>

RefreshLockFree(a) ==
    \A b \in Askers \ {a} :
       ProcessOf[b] = ProcessOf[a] => session[b] \notin {"refreshing", "saving", "writing"}

Reread_Skipped(a, found) == own[a]

\* get_tokens() or tokens
Reread(a, found) == IF found = 0 THEN own[a] ELSE found

(* _refresh_lock is taken and the tokens are read again *)
TakeRefreshLock(a) ==
    /\ session[a] = "waiting"
    /\ RefreshLockFree(a)
    /\ \E found \in {keyring, tokenFile} :
          /\ GetTokens(found)
          /\ kept' = IF found = 0 THEN kept \cup {own[a]} ELSE kept
          /\ IF Reread(a, found) \in expired
             THEN Moves(a, "refreshing", Reread(a, found))
             ELSE Moves(a, "idle", 0)
    /\ UNCHANGED <<storeVars, providerVars>>

(* The provider takes a refresh token once; its answer may be lost *)
Refresh(a) ==
    /\ session[a] = "refreshing"
    /\ spentBy' = [spentBy EXCEPT ![own[a]] = @ \cup {ProcessOf[a]}]
    /\ IF spentBy[own[a]] = {}
       THEN /\ issued < MaxTokens
            /\ issued' = issued + 1
            /\ UNCHANGED reused
            /\ \/ Moves(a, "saving", issued + 1) /\ UNCHANGED mishaps
               \/ Moves(a, "idle", 0) /\ Mishap
       ELSE /\ reused' = reused \cup {own[a]}
            /\ Moves(a, "idle", 0)
            /\ UNCHANGED <<issued, mishaps>>
    /\ UNCHANGED <<storeVars, expired, kept>>

Returned(a) == Moves(a, IF a \in Logins THEN "done" ELSE "idle", 0)

(* save_tokens: the keyring, whose old tokens stay if it fails ... *)
SaveInKeyring(a) ==
    /\ session[a] = "saving"
    /\ \/ keyring' = own[a] /\ Returned(a) /\ UNCHANGED mishaps
       \/ Moves(a, "writing", own[a]) /\ Mishap /\ UNCHANGED keyring
    /\ UNCHANGED <<tokenFile, signOut, providerVars, kept>>

(* ... and then the file, which a later save in the keyring leaves there *)
SaveInFile(a) ==
    /\ session[a] = "writing"
    /\ tokenFile' = own[a]
    /\ Returned(a)
    /\ UNCHANGED <<keyring, signOut, providerVars, kept, mishaps>>

(* The user has signed in: _exchange_code.  It does not take the lock.     *)
SignsIn(a) ==
    /\ session[a] = "idle"
    /\ issued < MaxTokens
    /\ issued' = issued + 1
    /\ Moves(a, "saving", issued + 1)
    /\ UNCHANGED <<storeVars, expired, spentBy, reused, kept, mishaps>>

(* clear_tokens: the keyring, whose failure is ignored, then the file.  It *)
(* does not take the lock, either.                                         *)
ClearKeyring ==
    /\ signOut = "before"
    /\ signOut' = "keyring_cleared"
    /\ \/ keyring' = 0 /\ UNCHANGED mishaps
       \/ Mishap /\ UNCHANGED keyring
    /\ UNCHANGED <<tokenFile, providerVars, session, own, kept>>

ClearFile ==
    /\ signOut = "keyring_cleared"
    /\ signOut' = "after"
    /\ tokenFile' = 0
    /\ UNCHANGED <<keyring, providerVars, session, own, kept, mishaps>>

(* An access token comes within a minute of its end *)
Ages(t) ==
    /\ t \in {keyring, tokenFile} \ (expired \cup {0})
    /\ expired' = expired \cup {t}
    /\ UNCHANGED <<storeVars, issued, spentBy, reused, session, own, kept, mishaps>>

AskerStep(a) == LookForToken(a) \/ TakeRefreshLock(a) \/ Refresh(a)

SignInNext ==
    \/ \E a \in Askers : AskerStep(a)
    \/ \E a \in Logins : SignsIn(a)
    \/ \E a \in Threads : SaveInKeyring(a) \/ SaveInFile(a)
    \/ ClearKeyring \/ ClearFile
    \/ \E t \in Tokens : Ages(t)

SignInSpec == SignInInit /\ [][SignInNext]_signInVars

-----------------------------------------------------------------------------
(* Properties *)

(* A refresh token is spent twice, which ends the sign-in, only from two   *)
(* processes, whose locks know nothing of each other, by a thread that     *)
(* kept its own copy as the store was empty, or after a failure (the       *)
(* comment at _refresh_lock promises it for all callers).                  *)
SpentTwiceOnlyIf ==
    \A t \in reused : spentBy[t] = Processes \/ t \in kept \/ mishaps > 0

=============================================================================

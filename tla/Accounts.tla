------------------------------ MODULE Accounts ------------------------------
(***************************************************************************)
(* UserStore and AuthService of src/packages/server/src/auth, with the     *)
(* account operations of AdminService: users.json, the sessions and locks  *)
(* in memory, and the requests that read and write them.  users.json is    *)
(* read, changed and written back with nothing to keep two requests apart, *)
(* and writeFile empties the file before it fills it.                      *)
(*                                                                         *)
(* A session is named after the request that logged in; Desk is one that   *)
(* is there from the beginning, and a new word after the request that      *)
(* brings it.  The steps of a request are the awaits of its handler.       *)
(***************************************************************************)
EXTENDS Naturals, Sequences, FiniteSets

CONSTANTS
  Requests, Users,
  First,       \* the word of the accounts that are there from the beginning
  Admin,       \* the account a new installation is seeded with
  MaxFails,    \* MAX_FAILS
  Desk,        \* the session of an administrator
  None,        \* no session, no account, no word, no request, nothing read
  Absent, Torn \* users.json: not there, or emptied and not filled

ASSUME AccountsAssumption ==
  /\ Admin \in Users /\ MaxFails \in Nat \ {0}
  /\ Desk \notin Requests
  /\ First \notin Requests
  /\ None \notin Requests

VARIABLES
  users,      \* users.json
  initial,    \* initial-admin-password.json is there
  seeding,    \* seedPromise, by the request that began it
  sessions, locks,
  step, req,  \* where each request is, and what it asks
  seen,       \* what it has read
  held        \* the fails of the lock it has read

(* History, which no code reads. *)
VARIABLES
  guesses,    \* wrong words judged since the account was last unlocked
  overlapped, \* accounts two logins were under way for at once
  raced,      \* registries two requests have changed at once
  wrote,      \* the requests that have written, in order
  barred,     \* accounts that were disabled
  late        \* logins that began when their account was barred

accountVars == <<users, initial, seeding, sessions, locks>>
requestVars == <<step, req, seen, held>>
historyVars == <<guesses, overlapped, raced, wrote, barred, late>>

Tokens == Requests \cup {Desk}
Switch == {"on", "off"}
Account == [enabled : Switch, role : {"admin", "operator"}, word : Requests \cup {First}, must : BOOLEAN]

ASSUME FilesAssumption ==
  /\ None \notin Account
  /\ Absent # Torn
  /\ {Absent, Torn} \cap [Users -> Account \cup {None}] = {}

NoLock == [fails |-> 0, locked |-> FALSE]

Goto(r, s) == step' = [step EXCEPT ![r] = s]
Took(r, value) == seen' = [seen EXCEPT ![r] = value]
Asks(r, kind, key, field, value, by) ==
  req' = [req EXCEPT ![r] =
            [kind |-> kind, key |-> key, field |-> field, value |-> value, by |-> by]]

(* authMiddleware: a session, and nothing but a new password before that   *)
(* has been given.  It is the identity of the login that counts.           *)
Live(t) == sessions[t] # None
Admitted(t) == Live(t) /\ ~sessions[t].must
Governs(t) == Admitted(t) /\ sessions[t].role = "admin"

(* A patch of a field; a new word needs not be changed.                    *)
Patched(account, field, value) ==
  LET patched == [account EXCEPT ![field] = value]
  IN  IF field = "word" THEN [patched EXCEPT !.must = FALSE] ELSE patched

NewAccount(word) == [enabled |-> "on", role |-> "operator", word |-> word, must |-> FALSE]

Changed(r) ==
  [seen[r] EXCEPT ![req[r].key] =
     IF req[r].kind = "create" THEN NewAccount(r)
                               ELSE Patched(@, req[r].field, req[r].value)]

-----------------------------------------------------------------------------
(* login, before it waits for users.json.                                  *)
UnderWay == {"look", "enoent", "plant", "sow", "wait", "judge"}
LockedOut(u) == locks[u].locked

LoginBegins(r) ==
  \E u \in Users :
    /\ step[r] = "idle"
    /\ Asks(r, "login", u, "word", None, None)
    /\ IF LockedOut(u) THEN Goto(r, "refused") ELSE Goto(r, "look")
    /\ held' = [held EXCEPT ![r] = locks[u].fails]
    /\ overlapped' =
         IF \E q \in Requests : step[q] \in UnderWay /\ req[q].kind = "login" /\ req[q].key = u
           THEN overlapped \cup {u} ELSE overlapped
    /\ late' = IF u \in barred THEN late \cup {r} ELSE late
    /\ UNCHANGED <<accountVars, seen, guesses, raced, wrote, barred>>

(* What is there to be done once users.json has been read.                 *)
AfterRead(r, file) ==
  CASE req[r].kind = "login" -> "judge"
    [] req[r].kind = "password" /\ step[r] = "look" -> "verify"
    [] req[r].kind = "create" -> IF file[req[r].key] = None THEN "open" ELSE "refused"
    [] OTHER -> IF file[req[r].key] = None THEN "refused" ELSE "open"

ReadUsers(r) ==
  /\ step[r] \in {"look", "read"}
  /\ IF users \in {Absent, Torn}
       THEN Goto(r, IF users = Absent THEN "enoent" ELSE "failed") /\ UNCHANGED seen
       ELSE Goto(r, AfterRead(r, users)) /\ Took(r, users)
  /\ UNCHANGED <<accountVars, req, held, historyVars>>

(* The first start: the requests that find no file share one seeding,      *)
(* unless one of them learns of it when the seeding has ended.             *)
Seed(r) ==
  /\ step[r] = "enoent"
  /\ IF seeding = None THEN seeding' = r /\ Goto(r, "plant")
                       ELSE UNCHANGED seeding /\ Goto(r, "wait")
  /\ UNCHANGED <<users, initial, sessions, locks, req, seen, held, historyVars>>

OpenSeeds(r) ==
  /\ step[r] = "plant"
  /\ Goto(r, "sow")
  /\ initial' = TRUE
  /\ users' = Torn
  /\ raced' = IF users = Absent THEN raced ELSE raced \cup {"users"}
  /\ UNCHANGED <<seeding, sessions, locks, req, seen, held, guesses, overlapped, wrote, barred,
                 late>>

Seeds ==
  [u \in Users |-> IF u = Admin
     THEN [enabled |-> "on", role |-> "admin", word |-> First, must |-> TRUE] ELSE None]

FillSeeds(r) ==
  LET told == {q \in Requests : q = r \/ step[q] = "wait"}
  IN
  /\ step[r] = "sow"
  /\ users' = Seeds
  /\ seeding' = None
  /\ step' = [q \in Requests |-> IF q \in told THEN "judge" ELSE step[q]]
  /\ seen' = [q \in Requests |-> IF q \in told THEN users' ELSE seen[q]]
  /\ UNCHANGED <<initial, sessions, locks, req, held, historyVars>>

(* login, when the account is there.  The word may be the right one.  The  *)
(* lock is the one that was read before.  A mutant lets any account in.    *)
AnyAccount(account) == account # None
Enabled(account) == account # None /\ account.enabled = "on"

(* A mutant locks after one more.                                          *)
AfterFailLater(fails) ==
  IF fails > MaxFails THEN [fails |-> 0, locked |-> TRUE] ELSE [fails |-> fails, locked |-> FALSE]
AfterFail(fails) ==
  IF fails >= MaxFails THEN [fails |-> 0, locked |-> TRUE] ELSE [fails |-> fails, locked |-> FALSE]

Judge(r) ==
  LET u == req[r].key
      account == seen[r][u]
      identity == [user |-> u, role |-> account.role, must |-> account.must]
  IN
  /\ step[r] = "judge"
  /\ \/ /\ Enabled(account)
        /\ locks' = [locks EXCEPT ![u] = NoLock]
        /\ sessions' = [sessions EXCEPT ![r] = identity]
        /\ Goto(r, "audit")
        /\ guesses' = [guesses EXCEPT ![u] = 0]
     \/ /\ locks' = [locks EXCEPT ![u] = AfterFail(held[r] + 1)]
        /\ Goto(r, "refused")
        /\ guesses' = [guesses EXCEPT ![u] = @ + 1]
        /\ UNCHANGED sessions
  /\ Took(r, None)
  /\ UNCHANGED <<users, initial, seeding, req, held, overlapped, raced, wrote, barred, late>>

-----------------------------------------------------------------------------
(* changePassword: the account is read once to verify the current word,    *)
(* and again to be changed.                                                *)
PasswordBegins(r) ==
  \E t \in Tokens :
    /\ step[r] = "idle" /\ Live(t)
    /\ Asks(r, "password", sessions[t].user, "word", r, t)
    /\ Goto(r, "look")
    /\ UNCHANGED <<accountVars, seen, held, historyVars>>

Verify(r) ==
  /\ step[r] = "verify"
  /\ \/ Goto(r, "refused")
     \/ Enabled(seen[r][req[r].key]) /\ Goto(r, "read")
  /\ Took(r, None)
  /\ UNCHANGED <<accountVars, req, held, historyVars>>

(* The operations of an administrator, who cannot lock himself out.        *)
Patches == {<<"enabled", "on">>, <<"enabled", "off">>, <<"role", "admin">>, <<"role", "operator">>}
Self(t, u, patch) ==
  sessions[t].user = u /\ (patch = <<"enabled", "off">> \/ patch = <<"role", "operator">>)

UpdateBegins(r) ==
  \E t \in Tokens, u \in Users, patch \in Patches :
    /\ step[r] = "idle" /\ Governs(t) /\ ~Self(t, u, patch)
    /\ Asks(r, "update", u, patch[1], patch[2], None)
    /\ Goto(r, "read")
    /\ UNCHANGED <<accountVars, seen, held, historyVars>>

WordBegins(r) ==
  \E t \in Tokens, u \in Users, kind \in {"create", "reset"} :
    /\ step[r] = "idle" /\ Governs(t)
    /\ Asks(r, kind, u, "word", r, None)
    /\ Goto(r, "read")
    /\ UNCHANGED <<accountVars, seen, held, historyVars>>

OpenUsers(r) ==
  /\ step[r] = "open"
  /\ Goto(r, "fill")
  /\ users' = Torn
  /\ raced' = IF users = seen[r] THEN raced ELSE raced \cup {"users"}
  /\ UNCHANGED <<initial, seeding, sessions, locks, req, seen, held, guesses, overlapped, wrote,
                 barred, late>>

(* The word of the first start goes with the first that replaces it; the   *)
(* session that asked needs no new one any longer.                         *)
FillUsers(r) ==
  LET u == req[r].key
      first == u = Admin /\ req[r].field = "word" /\ seen[r][u] # None /\ seen[r][u].must
      t == req[r].by
      enabled == IF req[r].field = "enabled" THEN {req[r].value} ELSE {}
  IN
  /\ step[r] = "fill"
  /\ Goto(r, "audit")
  /\ users' = Changed(r)
  /\ initial' = (initial /\ ~first)
  /\ sessions' = IF req[r].kind = "password" /\ Live(t)
                   THEN [sessions EXCEPT ![t].must = FALSE] ELSE sessions
  /\ wrote' = Append(wrote, r)
  /\ barred' = CASE enabled = {"off"} -> barred \cup {u}
                 [] enabled = {"on"} -> barred \ {u}
                 [] OTHER -> barred
  /\ late' = IF enabled = {"on"} THEN {q \in late : req[q].key # u} ELSE late
  /\ Took(r, None)
  /\ UNCHANGED <<seeding, locks, req, held, guesses, overlapped, raced>>

Logout(r) ==
  \E t \in Tokens :
    /\ step[r] = "idle" /\ Live(t)
    /\ Asks(r, "logout", None, "word", None, None)
    /\ sessions' = [sessions EXCEPT ![t] = None]
    /\ Goto(r, "audit")
    /\ UNCHANGED <<users, initial, seeding, locks, seen, held, historyVars>>

(* The line in the audit log comes last.  The client is told an error if   *)
(* it fails, although all has been done.                                   *)
Audit(r) ==
  /\ step[r] = "audit"
  /\ Goto(r, "told") \/ Goto(r, "failed")
  /\ UNCHANGED <<accountVars, req, seen, held, historyVars>>

-----------------------------------------------------------------------------
(* Time.  A session past SESSION_TTL_MS is found to be when it is used; a  *)
(* lock is over after LOCKOUT_MS.                                          *)
SessionExpired(r) ==
  \E t \in Tokens :
    /\ step[r] = "idle" /\ Live(t)
    /\ sessions' = [sessions EXCEPT ![t] = None]
    /\ Goto(r, "refused")
    /\ UNCHANGED <<users, initial, seeding, locks, req, seen, held, historyVars>>

LockExpires ==
  /\ \E u \in Users :
       /\ locks[u].locked
       /\ locks' = [locks EXCEPT ![u] = NoLock]
       /\ guesses' = [guesses EXCEPT ![u] = 0]
  /\ UNCHANGED <<users, initial, seeding, sessions, requestVars, overlapped, raced, wrote, barred,
                 late>>

(* A new process has the files alone.                                      *)
Restart ==
  /\ \E r \in Requests : step[r] \notin {"idle", "told", "refused", "failed"}
  /\ step' = [r \in Requests |->
                IF step[r] \in {"idle", "told", "refused"} THEN step[r] ELSE "failed"]
  /\ seen' = [r \in Requests |-> None]
  /\ held' = [r \in Requests |-> 0]
  /\ seeding' = None
  /\ sessions' = [t \in Tokens |-> None]
  /\ locks' = [u \in Users |-> NoLock]
  /\ guesses' = [u \in Users |-> 0]
  /\ UNCHANGED <<users, initial, req, overlapped, raced, wrote, barred, late>>

(* An installation nobody has used, or one with an administrator at work.  *)
AccountsInit ==
  /\ initial = FALSE
  /\ \/ /\ users = Absent
        /\ sessions = [t \in Tokens |-> None]
     \/ /\ users = [u \in Users |-> IF u = Admin
                      THEN [enabled |-> "on", role |-> "admin", word |-> First, must |-> FALSE]
                      ELSE NewAccount(First)]
        /\ sessions = [t \in Tokens |-> IF t = Desk
                         THEN [user |-> Admin, role |-> "admin", must |-> FALSE] ELSE None]
  /\ seeding = None
  /\ locks = [u \in Users |-> NoLock]
  /\ step = [r \in Requests |-> "idle"]
  /\ req = [r \in Requests |->
              [kind |-> "none", key |-> None, field |-> "word", value |-> None, by |-> None]]
  /\ seen = [r \in Requests |-> None]
  /\ held = [r \in Requests |-> 0]
  /\ guesses = [u \in Users |-> 0]
  /\ overlapped = {} /\ raced = {} /\ wrote = <<>> /\ barred = {} /\ late = {}

AccountStep ==
  \/ \E r \in Requests :
       \/ LoginBegins(r) \/ ReadUsers(r) \/ Seed(r) \/ OpenSeeds(r) \/ FillSeeds(r) \/ Judge(r)
       \/ PasswordBegins(r) \/ Verify(r) \/ UpdateBegins(r) \/ WordBegins(r)
       \/ OpenUsers(r) \/ FillUsers(r) \/ Logout(r) \/ Audit(r)
       \/ SessionExpired(r)
  \/ LockExpires

-----------------------------------------------------------------------------
(* MAX_FAILS and LOCKOUT_MS: as long as the attempts at an account come    *)
(* one after the other, no more than MaxFails wrong words are tried before *)
(* it is locked, and it stays locked until its time is over.  (Attempts at *)
(* once are counted as one, and one that began earlier can undo the lock.) *)
LockoutHolds ==
  \A u \in Users \ overlapped :
    /\ guesses[u] <= MaxFails
    /\ guesses[u] = MaxFails => locks[u].locked

(* A disabled account is out: no login that begins after it was disabled   *)
(* opens a session, whatever else became of the file, unless two requests  *)
(* have changed users.json at once.  (Sessions that were open stay open.)  *)
DisabledIsOut ==
  "users" \notin raced => \A r \in late : sessions[r] = None

=============================================================================

-------------------------- MODULE RegistriesProofs --------------------------
(***************************************************************************)
(* Theorems about the accounts and the registries, for any requests, users *)
(* and names and any number of wrong words before an account is locked.    *)
(***************************************************************************)
EXTENDS Registries, TLAPS

Roles == {"admin", "operator"}
UserKinds == {"password", "update", "create", "reset"}
Kinds == {"none", "login", "logout", "case", "archive", "prompt", "skill"} \cup UserKinds
UsersFile == [Users -> Account \cup {None}]
Overrides == [Skills -> Switch]
Bodies == Requests \cup {DefaultBody, Torn}
Session == [user : Users, role : Roles, must : BOOLEAN]
Lock == [fails : Nat, locked : BOOLEAN]
Question ==
  [kind : Kinds, key : Users \cup Ids \cup Skills \cup {None},
   field : {"enabled", "role", "word"},
   value : Requests \cup Switch \cup Roles \cup {None}, by : Tokens \cup {None}]

AccountTypes ==
  /\ users \in UsersFile \cup {Absent, Torn}
  /\ initial \in BOOLEAN
  /\ seeding \in Requests \cup {None}
  /\ sessions \in [Tokens -> Session \cup {None}]
  /\ locks \in [Users -> Lock]
  /\ guesses \in [Users -> Nat]
  /\ overlapped \subseteq Users
  /\ raced \subseteq {"users", "cases", "prompts", "skills"}
  /\ wrote \in Seq(Requests)
  /\ barred \subseteq Users
  /\ late \subseteq Requests

RegistryTypes ==
  /\ dirs \subseteq Ids
  /\ manifest \in [Ids -> Requests \cup {None}]
  /\ archived \subseteq Ids
  /\ id \in [Requests -> Ids \cup {None}]
  /\ body \in Bodies
  /\ versions \subseteq Bodies
  /\ overrides \in Overrides \cup {Torn}

(* What a request of each kind asks for, and where it can be.              *)
AskFits(q, s) ==
  /\ q.kind \in UserKinds \cup {"login"} => q.key \in Users
  /\ q.kind = "update" => <<q.field, q.value>> \in Patches
  /\ q.kind \in {"password", "create", "reset"} => q.field = "word" /\ q.value \in Requests
  /\ q.kind = "archive" => q.key \in Ids
  /\ q.kind = "skill" => q.key \in Skills /\ q.value \in Switch /\ q.field = "word"
  /\ s = "idle" => q.kind = "none"
  /\ s \in {"enoent", "plant", "sow", "wait", "judge"} => q.kind = "login"
  /\ s = "look" => q.kind \in {"login", "password"}
  /\ s = "verify" => q.kind = "password"
  /\ s \in {"read", "open", "fill"} => q.kind \in UserKinds
  /\ s \in {"list", "mkdir", "manifest"} => q.kind = "case"
  /\ s \in {"turn", "save"} => q.kind = "archive"
  /\ s \in {"previous", "keep", "empty", "body"} => q.kind = "prompt"
  /\ s \in {"overrides", "shut", "switch"} => q.kind = "skill"

(* What a request has read, by where it is.                                *)
SeenFits(q, s, v) ==
  /\ s \in {"judge", "verify", "open", "fill"} => v \in UsersFile
  /\ s \in {"open", "fill"} => (q.kind = "create" <=> v[q.key] = None)
  /\ s = "save" => v \in Requests
  /\ s \in {"keep", "empty"} => v \in Bodies
  /\ s \in {"shut", "switch"} => v \in Overrides

RequestTypes ==
  /\ step = [r \in Requests |-> step[r]]
  /\ req \in [Requests -> Question]
  /\ seen = [r \in Requests |-> seen[r]]
  /\ held \in [Requests -> Nat]
  /\ \A r \in Requests :
       /\ AskFits(req[r], step[r])
       /\ SeenFits(req[r], step[r], seen[r])
       /\ step[r] \in {"mkdir", "manifest"} => id[r] \in Ids
       /\ req[r].kind = "create" => req[r].value = r

TypeInv == AccountTypes /\ RegistryTypes /\ RequestTypes

-----------------------------------------------------------------------------
(* Until there is a users.json nobody has a session, and nobody who has    *)
(* not logged in asks for anything else.                                   *)
Unused ==
  /\ barred = {}
  /\ \A t \in Tokens : sessions[t] = None
  /\ \A r \in Requests : req[r].kind \in {"none", "login"} /\ step[r] # "judge"

Raced(file) == file \in raced

SeedFits ==
  /\ users = Absent => Unused
  /\ ~Raced("users") =>
       \A r \in Requests : step[r] = "sow" =>
         /\ users = Torn /\ Unused
         /\ \A q \in Requests : step[q] = "sow" => q = r

(* The writer of a registry is on the list.                                *)
Listed(r) == \E i \in DOMAIN wrote : wrote[i] = r
Acknowledged(r, file) == step[r] \in {"audit", "told"} /\ File(r) = file
WroteFits ==
  /\ \A i \in DOMAIN wrote : step[wrote[i]] # "idle"
  /\ \A r \in Requests :
       Acknowledged(r, "users") \/ Acknowledged(r, "skills") => Listed(r)

(* A users.json that says what it should: who is barred is disabled, and   *)
(* what was acknowledged is there.                                         *)
Bars(file) == \A u \in barred : file[u] # None /\ file[u].enabled = "off"
Says(file) ==
  \A r \in Requests : Acknowledged(r, "users") =>
    \/ Superseded(r)
    \/ file[req[r].key] # None /\ file[req[r].key][req[r].field] = req[r].value

UsersFits ==
  ~Raced("users") =>
    /\ users \in UsersFile => Bars(users) /\ Says(users)
    /\ \A r \in Requests : step[r] = "fill" =>
         /\ users = Torn /\ Bars(seen[r]) /\ Says(seen[r])
         /\ \A q \in Requests : step[q] = "fill" => q = r

(* A login that began when its account was barred finds it disabled.       *)
LateFits ==
  /\ \A r \in Requests : step[r] = "idle" => sessions[r] = None
  /\ \A r \in late : step[r] # "idle" /\ req[r].kind = "login" /\ req[r].key \in barred
  /\ ~Raced("users") =>
       \A r \in late :
         /\ sessions[r] = None
         /\ step[r] = "judge" => ~Enabled(seen[r][req[r].key])

(* The lock counts the wrong words, and the one who tries has its count.   *)
Trying(r, u) == step[r] \in UnderWay /\ req[r].kind = "login" /\ req[r].key = u
LockFits ==
  \A u \in Users \ overlapped :
    /\ IF locks[u].locked THEN guesses[u] = MaxFails /\ locks[u].fails = 0
                          ELSE guesses[u] < MaxFails /\ guesses[u] = locks[u].fails
    /\ \A r \in Requests : Trying(r, u) =>
         /\ ~locks[u].locked /\ held[r] = locks[u].fails
         /\ \A q \in Requests : Trying(q, u) => q = r

(* A case is of the one creation that has its id.                          *)
Placed(r) == req[r].kind = "case" /\ step[r] \in {"mkdir", "manifest", "audit", "told"}
PlacedFits(r) ==
  Placed(r) =>
    /\ id[r] \in Ids
    /\ step[r] # "mkdir" => id[r] \in dirs
    /\ manifest[id[r]] = IF step[r] \in {"mkdir", "manifest"} THEN None ELSE r
ArchiveFits(r) ==
  req[r].kind = "archive" =>
    /\ step[r] \in {"save", "audit", "told"} => manifest[req[r].key] # None
    /\ step[r] = "save" => seen[r] = manifest[req[r].key]
    /\ step[r] \in {"audit", "told"} => req[r].key \in archived
CaseFits ==
  ~Raced("cases") =>
    /\ \A i \in Ids : manifest[i] # None => i \in dirs
    /\ \A r \in Requests : PlacedFits(r) /\ ArchiveFits(r)
    /\ \A r, q \in Requests : Placed(r) /\ Placed(q) /\ id[q] = id[r] => q = r

(* The prompt that is replaced is among the versions before it goes.       *)
VersionFits(r) ==
  /\ step[r] = "empty" => seen[r] \in versions
  /\ step[r] = "body" => body = Torn
  /\ req[r].kind = "prompt" /\ step[r] \in {"audit", "told"} => body = r \/ r \in versions
PromptFits ==
  ~Raced("prompts") =>
    /\ \A r \in Requests : VersionFits(r)
    /\ \A r, q \in Requests : step[r] = "body" /\ step[q] = "body" => q = r

Switches(file) ==
  \A r \in Requests : Acknowledged(r, "skills") =>
    Superseded(r) \/ file[req[r].key] = req[r].value
SkillFits ==
  ~Raced("skills") =>
    /\ overrides # Torn => Switches(overrides)
    /\ \A r \in Requests : step[r] = "switch" =>
         /\ overrides = Torn /\ Switches(seen[r])
         /\ \A q \in Requests : step[q] = "switch" => q = r

IInv ==
  /\ TypeInv
  /\ SeedFits
  /\ WroteFits
  /\ UsersFits
  /\ LateFits
  /\ LockFits
  /\ CaseFits
  /\ PromptFits
  /\ SkillFits

-----------------------------------------------------------------------------
(* The variables have their types.                                         *)
LEMMA InitTypes == Init => TypeInv
<1> SUFFICES ASSUME Init PROVE TypeInv
  OBVIOUS
<1> USE DEF Init, AccountsInit
<1> DEFINE admin == [enabled |-> "on", role |-> "admin", word |-> First, must |-> FALSE]
<1>1. NewAccount(First) \in Account /\ admin \in Account
  BY DEF NewAccount, Account, Switch
<1>2. users \in UsersFile \cup {Absent, Torn}
  <2> HIDE DEF admin
  <2>1. [u \in Users |-> IF u = Admin THEN admin ELSE NewAccount(First)] \in UsersFile
    BY <1>1 DEF UsersFile
  <2> QED
    BY <2>1 DEF admin
<1>3. sessions \in [Tokens -> Session \cup {None}]
  <2> DEFINE governor == [user |-> Admin, role |-> "admin", must |-> FALSE]
  <2>1. governor \in Session
    BY AccountsAssumption DEF Session, Roles
  <2> HIDE DEF governor
  <2>2. /\ [t \in Tokens |-> IF t = Desk THEN governor ELSE None] \in [Tokens -> Session \cup {None}]
        /\ [t \in Tokens |-> None] \in [Tokens -> Session \cup {None}]
    BY <2>1
  <2> QED
    BY <2>2 DEF governor
<1>4. AccountTypes
  <2>1. locks \in [Users -> Lock] /\ guesses \in [Users -> Nat] /\ wrote \in Seq(Requests)
    BY DEF Lock, NoLock
  <2> QED
    BY <1>2, <1>3, <2>1 DEF AccountTypes
<1>5. RegistryTypes
  BY DEF RegistryTypes, Overrides, Bodies, Switch
<1>6. RequestTypes
  BY DEF RequestTypes, Question, Kinds, AskFits, SeenFits, Patches, UserKinds
<1> QED
  BY <1>4, <1>5, <1>6 DEF TypeInv

(* A file in which one account has been changed.                           *)
LEMMA PatchedIsAccount ==
  ASSUME NEW account \in Account, NEW field \in {"enabled", "role", "word"}, NEW value,
         field = "word" => value \in Requests, field # "word" => <<field, value>> \in Patches
  PROVE  /\ Patched(account, field, value) \in Account
         /\ Patched(account, field, value)[field] = value
         /\ \A other \in {"enabled", "role", "word"} \ {field} :
              Patched(account, field, value)[other] = account[other]
<1>1. CASE field = "enabled"
  BY <1>1 DEF Patched, Account, Switch, Patches
<1>2. CASE field = "role"
  BY <1>2 DEF Patched, Account, Switch, Patches
<1>3. CASE field = "word"
  BY <1>3 DEF Patched, Account, Switch
<1> QED
  BY <1>1, <1>2, <1>3

LEMMA AccountIsThere ==
  ASSUME NEW file \in UsersFile, NEW u \in Users, file[u] # None
  PROVE  file[u] \in Account
BY DEF UsersFile

(* What FillUsers writes.                                                  *)
LEMMA ChangedFits ==
  ASSUME TypeInv, NEW r \in Requests, step[r] = "fill"
  PROVE  /\ seen[r] \in UsersFile /\ req[r].key \in Users /\ Changed(r) \in UsersFile
         /\ Changed(r)[req[r].key] # None
         /\ Changed(r)[req[r].key][req[r].field] = req[r].value
         /\ \A u \in Users \ {req[r].key} : Changed(r)[u] = seen[r][u]
         /\ \A other \in {"enabled", "role", "word"} \ {req[r].field} :
              req[r].kind # "create" =>
                Changed(r)[req[r].key][other] = seen[r][req[r].key][other]
         /\ req[r].kind = "create" <=> seen[r][req[r].key] = None
<1> DEFINE u == req[r].key
           new == IF req[r].kind = "create" THEN NewAccount(r)
                  ELSE Patched(seen[r][u], req[r].field, req[r].value)
<1>1. /\ AskFits(req[r], "fill") /\ SeenFits(req[r], "fill", seen[r])
      /\ req[r] \in Question
      /\ req[r].kind = "create" => req[r].value = r
  BY DEF TypeInv, RequestTypes
<1>2. /\ seen[r] \in UsersFile /\ u \in Users /\ req[r].kind \in UserKinds
      /\ req[r].kind = "create" <=> seen[r][u] = None
  BY <1>1 DEF AskFits, SeenFits
<1>3. Changed(r) = [seen[r] EXCEPT ![u] = new]
  BY DEF Changed
<1>4. /\ new \in Account /\ new[req[r].field] = req[r].value
      /\ req[r].kind # "create" =>
           \A other \in {"enabled", "role", "word"} \ {req[r].field} :
             new[other] = seen[r][u][other]
  <2>1. CASE req[r].kind = "create"
    BY <1>1, <2>1 DEF NewAccount, Account, Switch, AskFits
  <2>2. CASE req[r].kind # "create"
    <3>1. seen[r][u] \in Account
      BY <1>2, <2>2, AccountIsThere
    <3>2. /\ req[r].field \in {"enabled", "role", "word"}
          /\ req[r].field = "word" => req[r].value \in Requests
          /\ req[r].field # "word" => <<req[r].field, req[r].value>> \in Patches
      BY <1>1, <1>2, <2>2 DEF AskFits, UserKinds, Question, Patches
    <3> DEFINE account == seen[r][u]
               field == req[r].field
               value == req[r].value
    <3>3. /\ account \in Account /\ field \in {"enabled", "role", "word"}
          /\ field = "word" => value \in Requests
          /\ field # "word" => <<field, value>> \in Patches
      BY <3>1, <3>2
    <3>4. new = Patched(account, field, value)
      BY <2>2
    <3> HIDE DEF account, field, value
    <3>5. /\ Patched(account, field, value) \in Account
          /\ Patched(account, field, value)[field] = value
          /\ \A other \in {"enabled", "role", "word"} \ {field} :
               Patched(account, field, value)[other] = account[other]
      BY <3>3, PatchedIsAccount
    <3>6. /\ new \in Account /\ new[field] = value
          /\ \A other \in {"enabled", "role", "word"} \ {field} : new[other] = account[other]
      BY <3>4, <3>5
    <3> QED
      BY <3>6 DEF account, field, value
  <2> QED
    BY <2>1, <2>2
<1>5. new # None
  BY <1>4, FilesAssumption
<1> QED
  BY <1>2, <1>3, <1>4, <1>5 DEF UsersFile

LEMMA SeedsFit == Seeds \in UsersFile
<1> DEFINE admin == [enabled |-> "on", role |-> "admin", word |-> First, must |-> TRUE]
<1>1. admin \in Account
  BY DEF Account, Switch
<1> HIDE DEF admin
<1>2. [u \in Users |-> IF u = Admin THEN admin ELSE None] \in UsersFile
  BY <1>1 DEF UsersFile
<1> QED
  BY <1>2 DEF Seeds, admin

(* A step of a request to the accounts, or to one of the registries.        *)
AccountMove(r) ==
  \/ LoginBegins(r) \/ ReadUsers(r) \/ Seed(r) \/ OpenSeeds(r) \/ FillSeeds(r) \/ Judge(r)
  \/ PasswordBegins(r) \/ Verify(r) \/ UpdateBegins(r) \/ WordBegins(r)
  \/ OpenUsers(r) \/ FillUsers(r) \/ Logout(r) \/ Audit(r) \/ SessionExpired(r)
CaseMove(r) ==
  \/ CaseBegins(r) \/ AllocateId(r) \/ MakeDirs(r) \/ WriteManifest(r)
  \/ ArchiveBegins(r) \/ Turn(r) \/ SaveManifest(r)
PromptMove(r) ==
  PromptBegins(r) \/ ReadPrevious(r) \/ KeepVersion(r) \/ EmptyPrompt(r) \/ WriteBody(r)
SkillMove(r) ==
  SkillBegins(r) \/ ReadOverrides(r) \/ EmptyOverrides(r) \/ WriteOverrides(r)
RegistryMove(r) == CaseMove(r) \/ PromptMove(r) \/ SkillMove(r)

LEMMA NextCases ==
  [Next]_vars =>
    \/ \E r \in Requests : AccountMove(r) /\ UNCHANGED registryVars
    \/ \E r \in Requests : RegistryMove(r)
    \/ LockExpires /\ UNCHANGED registryVars
    \/ Restart /\ UNCHANGED registryVars
    \/ UNCHANGED vars
BY DEF Next, AccountStep, AccountMove, RegistryMove, CaseMove, PromptMove, SkillMove

LEMMA AccountMoveTypes ==
  ASSUME TypeInv, NEW r \in Requests, AccountMove(r)
  PROVE  AccountTypes'
<1> USE DEF AccountTypes, accountVars, requestVars, historyVars
<1>1. AccountTypes /\ RequestTypes
  BY DEF TypeInv
<1>2. CASE LoginBegins(r)
  BY <1>1, <1>2 DEF LoginBegins
<1>3. CASE ReadUsers(r)
  BY <1>1, <1>3 DEF ReadUsers
<1>4. CASE Seed(r)
  BY <1>1, <1>4 DEF Seed
<1>5. CASE OpenSeeds(r)
  BY <1>1, <1>5 DEF OpenSeeds
<1>6. CASE FillSeeds(r)
  <2>1. Seeds \in UsersFile
    BY SeedsFit
  <2> QED
    BY <1>1, <1>6, <2>1 DEF FillSeeds
<1>7. CASE Judge(r)
  <2> DEFINE u == req[r].key
             identity == [user |-> u, role |-> seen[r][u].role, must |-> seen[r][u].must]
  <2>1. u \in Users /\ seen[r] \in UsersFile /\ held[r] \in Nat
    BY <1>1, <1>7 DEF Judge, RequestTypes, AskFits, SeenFits
  <2>2. Enabled(seen[r][u]) => identity \in Session
    BY <2>1, AccountIsThere DEF Enabled, Account, Session, Roles
  <2>3. NoLock \in Lock /\ AfterFail(held[r] + 1) \in Lock
    BY <2>1 DEF NoLock, AfterFail, Lock
  <2>4. \/ /\ Enabled(seen[r][u])
           /\ locks' = [locks EXCEPT ![u] = NoLock]
           /\ sessions' = [sessions EXCEPT ![r] = identity]
           /\ guesses' = [guesses EXCEPT ![u] = 0]
        \/ /\ locks' = [locks EXCEPT ![u] = AfterFail(held[r] + 1)]
           /\ guesses' = [guesses EXCEPT ![u] = @ + 1]
           /\ UNCHANGED sessions
    BY <1>7 DEF Judge
  <2>5. UNCHANGED <<users, initial, seeding, overlapped, raced, wrote, barred, late>>
    BY <1>7 DEF Judge
  <2> HIDE DEF u, identity
  <2>6. locks' \in [Users -> Lock] /\ guesses' \in [Users -> Nat]
    <3>1. /\ locks \in [Users -> Lock] /\ guesses \in [Users -> Nat]
          /\ u \in Users /\ NoLock \in Lock /\ AfterFail(held[r] + 1) \in Lock
      BY <1>1, <2>1, <2>3 DEF AccountTypes
    <3>2. locks' \in [Users -> Lock]
      BY <2>4, <3>1
    <3>3. guesses' \in [Users -> Nat]
      BY <2>4, <3>1
    <3> QED
      BY <3>2, <3>3
  <2>7. sessions' \in [Tokens -> Session \cup {None}]
    BY <1>1, <2>2, <2>4
  <2> QED
    BY <1>1, <2>5, <2>6, <2>7
<1>8. CASE PasswordBegins(r)
  BY <1>1, <1>8 DEF PasswordBegins
<1>9. CASE Verify(r)
  BY <1>1, <1>9 DEF Verify
<1>10. CASE UpdateBegins(r)
  BY <1>1, <1>10 DEF UpdateBegins
<1>11. CASE WordBegins(r)
  BY <1>1, <1>11 DEF WordBegins
<1>12. CASE OpenUsers(r)
  BY <1>1, <1>12 DEF OpenUsers
<1>13. CASE FillUsers(r)
  <2>1. step[r] = "fill" /\ users' = Changed(r) /\ wrote' = Append(wrote, r)
    BY <1>13 DEF FillUsers
  <2>2. users' \in UsersFile /\ req[r].key \in Users /\ seen[r] \in UsersFile
    BY <2>1, ChangedFits
  <2>3. wrote' \in Seq(Requests)
    BY <1>1, <2>1
  <2>4. sessions' \in [Tokens -> Session \cup {None}]
    <3>1. CASE sessions' = sessions
      BY <1>1, <3>1
    <3>2. CASE sessions' # sessions
      <4>1. PICK t \in {req[r].by} : Live(t) /\ sessions' = [sessions EXCEPT ![t].must = FALSE]
        BY <1>13, <3>2 DEF FillUsers
      <4>2. t \in Tokens => [sessions[t] EXCEPT !.must = FALSE] \in Session
        BY <1>1, <4>1 DEF Live, Session
      <4>3. sessions' = [sessions EXCEPT ![t] = [sessions[t] EXCEPT !.must = FALSE]]
        BY <4>1
      <4> QED
        BY <1>1, <4>2, <4>3
    <3> QED
      BY <3>1, <3>2
  <2>5. initial' \in BOOLEAN
    BY <1>13, <1>1 DEF FillUsers
  <2>6. barred' \subseteq Users /\ late' \subseteq Requests
    BY <1>13, <1>1, <2>2 DEF FillUsers
  <2>7. UNCHANGED <<seeding, locks, guesses, overlapped, raced>>
    BY <1>13 DEF FillUsers
  <2> QED
    BY <1>1, <2>2, <2>3, <2>4, <2>5, <2>6, <2>7
<1>14. CASE Logout(r)
  BY <1>1, <1>14 DEF Logout
<1>15. CASE Audit(r)
  BY <1>1, <1>15 DEF Audit
<1>16. CASE SessionExpired(r)
  BY <1>1, <1>16 DEF SessionExpired
<1> QED
  BY <1>2, <1>3, <1>4, <1>5, <1>6, <1>7, <1>8, <1>9, <1>10, <1>11, <1>12, <1>13, <1>14, <1>15, <1>16, AccountMove(r) DEF AccountMove

LEMMA RegistryMoveTypes ==
  ASSUME TypeInv, NEW r \in Requests, RegistryMove(r)
  PROVE  AccountTypes'
<1> USE DEF AccountTypes, accountVars, requestVars, historyVars, Proceed, Begins, Race, Wrote
<1>1. AccountTypes /\ RequestTypes
  BY DEF TypeInv
<1>2. CASE CaseBegins(r)
  BY <1>1, <1>2 DEF CaseBegins
<1>3. CASE AllocateId(r)
  BY <1>1, <1>3 DEF AllocateId
<1>4. CASE MakeDirs(r)
  BY <1>1, <1>4 DEF MakeDirs
<1>5. CASE WriteManifest(r)
  BY <1>1, <1>5 DEF WriteManifest
<1>6. CASE ArchiveBegins(r)
  BY <1>1, <1>6 DEF ArchiveBegins
<1>7. CASE Turn(r)
  BY <1>1, <1>7 DEF Turn
<1>8. CASE SaveManifest(r)
  BY <1>1, <1>8 DEF SaveManifest
<1>9. CASE PromptBegins(r)
  BY <1>1, <1>9 DEF PromptBegins
<1>10. CASE ReadPrevious(r)
  BY <1>1, <1>10 DEF ReadPrevious
<1>11. CASE KeepVersion(r)
  BY <1>1, <1>11 DEF KeepVersion
<1>12. CASE EmptyPrompt(r)
  BY <1>1, <1>12 DEF EmptyPrompt
<1>13. CASE WriteBody(r)
  BY <1>1, <1>13 DEF WriteBody
<1>14. CASE SkillBegins(r)
  BY <1>1, <1>14 DEF SkillBegins
<1>15. CASE ReadOverrides(r)
  BY <1>1, <1>15 DEF ReadOverrides
<1>16. CASE EmptyOverrides(r)
  BY <1>1, <1>16 DEF EmptyOverrides
<1>17. CASE WriteOverrides(r)
  BY <1>1, <1>17 DEF WriteOverrides
<1> QED
  BY <1>2, <1>3, <1>4, <1>5, <1>6, <1>7, <1>8, <1>9, <1>10, <1>11, <1>12, <1>13, <1>14, <1>15, <1>16, <1>17, RegistryMove(r)
  DEF RegistryMove, CaseMove, PromptMove, SkillMove

LEMMA RegistryTypesKept ==
  ASSUME TypeInv, NEW r \in Requests, RegistryMove(r)
  PROVE  RegistryTypes'
<1> USE DEF RegistryTypes, registryVars, caseVars, promptVars, Proceed, Begins
<1>1. RegistryTypes /\ RequestTypes
  BY DEF TypeInv
<1>2. CASE CaseBegins(r)
  BY <1>1, <1>2 DEF CaseBegins
<1>3. CASE AllocateId(r)
  <2>1. FreeId \subseteq Ids
    BY DEF FreeId, Ids, Range
  <2> QED
    BY <1>1, <1>3, <2>1 DEF AllocateId
<1>4. CASE MakeDirs(r)
  <2>1. id[r] \in Ids
    BY <1>1, <1>4 DEF MakeDirs, RequestTypes
  <2> QED
    BY <1>1, <1>4, <2>1 DEF MakeDirs
<1>5. CASE WriteManifest(r)
  BY <1>1, <1>5 DEF WriteManifest
<1>6. CASE ArchiveBegins(r)
  BY <1>1, <1>6 DEF ArchiveBegins
<1>7. CASE Turn(r)
  BY <1>1, <1>7 DEF Turn
<1>8. CASE SaveManifest(r)
  <2>1. seen[r] \in Requests /\ req[r].key \in Ids
    BY <1>1, <1>8 DEF SaveManifest, RequestTypes, AskFits, SeenFits
  <2> QED
    BY <1>1, <1>8, <2>1 DEF SaveManifest
<1>9. CASE PromptBegins(r)
  BY <1>1, <1>9 DEF PromptBegins
<1>10. CASE ReadPrevious(r)
  BY <1>1, <1>10 DEF ReadPrevious
<1>11. CASE KeepVersion(r)
  <2>1. seen[r] \in Bodies
    BY <1>1, <1>11 DEF KeepVersion, RequestTypes, SeenFits
  <2> QED
    BY <1>1, <1>11, <2>1 DEF KeepVersion
<1>12. CASE EmptyPrompt(r)
  <2>1. Torn \in Bodies
    BY DEF Bodies
  <2> QED
    BY <1>1, <1>12, <2>1 DEF EmptyPrompt
<1>13. CASE WriteBody(r)
  <2>1. r \in Bodies
    BY DEF Bodies
  <2> QED
    BY <1>1, <1>13, <2>1 DEF WriteBody
<1>14. CASE SkillBegins(r)
  BY <1>1, <1>14 DEF SkillBegins
<1>15. CASE ReadOverrides(r)
  BY <1>1, <1>15 DEF ReadOverrides
<1>16. CASE EmptyOverrides(r)
  BY <1>1, <1>16 DEF EmptyOverrides
<1>17. CASE WriteOverrides(r)
  <2>1. seen[r] \in Overrides /\ req[r].key \in Skills /\ req[r].value \in Switch
    BY <1>1, <1>17 DEF WriteOverrides, RequestTypes, AskFits, SeenFits
  <2>2. overrides' \in Overrides
    BY <1>17, <2>1 DEF WriteOverrides, Overrides
  <2> QED
    BY <1>1, <1>17, <2>2 DEF WriteOverrides
<1> QED
  BY <1>2, <1>3, <1>4, <1>5, <1>6, <1>7, <1>8, <1>9, <1>10, <1>11, <1>12, <1>13, <1>14, <1>15, <1>16, <1>17 DEF RegistryMove, CaseMove, PromptMove, SkillMove

(* But for the seeding, which others wait for, a request moves alone.      *)
MovesAlone(r) ==
  /\ step' = [step EXCEPT ![r] = step'[r]]
  /\ req' = [req EXCEPT ![r] = req'[r]]
  /\ seen' = [seen EXCEPT ![r] = seen'[r]]
  /\ held' = [held EXCEPT ![r] = held'[r]]

LEMMA AccountMovesAlone ==
  ASSUME RequestTypes, NEW r \in Requests, AccountMove(r)
  PROVE  MovesAlone(r) \/ FillSeeds(r)
<1> USE DEF RequestTypes, MovesAlone, Goto, Took, Asks, accountVars, requestVars, historyVars
<1>1. CASE LoginBegins(r)
  BY <1>1 DEF LoginBegins
<1>2. CASE ReadUsers(r)
  BY <1>2 DEF ReadUsers
<1>3. CASE Seed(r)
  BY <1>3 DEF Seed
<1>4. CASE OpenSeeds(r)
  BY <1>4 DEF OpenSeeds
<1>5. CASE Judge(r)
  BY <1>5 DEF Judge
<1>6. CASE PasswordBegins(r)
  BY <1>6 DEF PasswordBegins
<1>7. CASE Verify(r)
  BY <1>7 DEF Verify
<1>8. CASE UpdateBegins(r)
  BY <1>8 DEF UpdateBegins
<1>9. CASE WordBegins(r)
  BY <1>9 DEF WordBegins
<1>10. CASE OpenUsers(r)
  BY <1>10 DEF OpenUsers
<1>11. CASE FillUsers(r)
  BY <1>11 DEF FillUsers
<1>12. CASE Logout(r)
  BY <1>12 DEF Logout
<1>13. CASE Audit(r)
  BY <1>13 DEF Audit
<1>14. CASE SessionExpired(r)
  BY <1>14 DEF SessionExpired
<1> QED
  BY <1>1, <1>2, <1>3, <1>4, <1>5, <1>6, <1>7, <1>8, <1>9, <1>10, <1>11, <1>12, <1>13, <1>14 DEF AccountMove

LEMMA RegistryMovesAlone ==
  ASSUME RequestTypes, NEW r \in Requests, RegistryMove(r)
  PROVE  MovesAlone(r)
<1> USE DEF RequestTypes, MovesAlone, Goto, Took, Asks, accountVars, requestVars, historyVars,
            Proceed, Begins
<1>1. CASE CaseBegins(r)
  BY <1>1 DEF CaseBegins
<1>2. CASE AllocateId(r)
  BY <1>2 DEF AllocateId
<1>3. CASE MakeDirs(r)
  BY <1>3 DEF MakeDirs
<1>4. CASE WriteManifest(r)
  BY <1>4 DEF WriteManifest
<1>5. CASE ArchiveBegins(r)
  BY <1>5 DEF ArchiveBegins
<1>6. CASE Turn(r)
  BY <1>6 DEF Turn
<1>7. CASE SaveManifest(r)
  BY <1>7 DEF SaveManifest
<1>8. CASE PromptBegins(r)
  BY <1>8 DEF PromptBegins
<1>9. CASE ReadPrevious(r)
  BY <1>9 DEF ReadPrevious
<1>10. CASE KeepVersion(r)
  BY <1>10 DEF KeepVersion
<1>11. CASE EmptyPrompt(r)
  BY <1>11 DEF EmptyPrompt
<1>12. CASE WriteBody(r)
  BY <1>12 DEF WriteBody
<1>13. CASE SkillBegins(r)
  BY <1>13 DEF SkillBegins
<1>14. CASE ReadOverrides(r)
  BY <1>14 DEF ReadOverrides
<1>15. CASE EmptyOverrides(r)
  BY <1>15 DEF EmptyOverrides
<1>16. CASE WriteOverrides(r)
  BY <1>16 DEF WriteOverrides
<1> QED
  BY <1>1, <1>2, <1>3, <1>4, <1>5, <1>6, <1>7, <1>8, <1>9, <1>10, <1>11, <1>12, <1>13, <1>14, <1>15, <1>16 DEF RegistryMove, CaseMove, PromptMove, SkillMove

RequestFits(r) ==
  /\ req[r] \in Question /\ held[r] \in Nat
  /\ AskFits(req[r], step[r])
  /\ SeenFits(req[r], step[r], seen[r])
  /\ step[r] \in {"mkdir", "manifest"} => id[r] \in Ids
  /\ req[r].kind = "create" => req[r].value = r

LEMMA MoveKeepsRequests ==
  ASSUME RequestTypes, NEW r \in Requests, MovesAlone(r), RequestFits(r)',
         \A p \in Requests \ {r} : id'[p] = id[p]
  PROVE  RequestTypes'
<1> USE DEF RequestTypes, MovesAlone, RequestFits
<1>1. /\ step' = [p \in Requests |-> step'[p]] /\ seen' = [p \in Requests |-> seen'[p]]
      /\ req' \in [Requests -> Question] /\ held' \in [Requests -> Nat]
  OBVIOUS
<1>2. ASSUME NEW p \in Requests \ {r}
      PROVE  /\ step'[p] = step[p] /\ req'[p] = req[p] /\ seen'[p] = seen[p] /\ id'[p] = id[p]
  OBVIOUS
<1>3. ASSUME NEW p \in Requests
      PROVE  /\ AskFits(req[p], step[p])' /\ SeenFits(req[p], step[p], seen[p])'
             /\ (step[p] \in {"mkdir", "manifest"} => id[p] \in Ids)'
             /\ (req[p].kind = "create" => req[p].value = p)'
  <2>1. CASE p = r
    BY <2>1
  <2>2. CASE p # r
    BY <1>2, <2>2 DEF AskFits, SeenFits
  <2> QED
    BY <2>1, <2>2
<1> QED
  BY <1>1, <1>3

LEMMA AskIs ==
  ASSUME req \in [Requests -> Question], NEW r \in Requests, NEW kind \in Kinds,
         NEW key \in Users \cup Ids \cup Skills \cup {None},
         NEW field \in {"enabled", "role", "word"},
         NEW value \in Requests \cup Switch \cup Roles \cup {None},
         NEW by \in Tokens \cup {None}, Asks(r, kind, key, field, value, by)
  PROVE  /\ req'[r] \in Question
         /\ req'[r].kind = kind /\ req'[r].key = key
         /\ req'[r].field = field /\ req'[r].value = value /\ req'[r].by = by
BY DEF Asks, Question

LEMMA AccountMoveRequests ==
  ASSUME TypeInv, SeedFits, NEW r \in Requests, AccountMove(r), UNCHANGED registryVars,
         ~FillSeeds(r)
  PROVE  RequestFits(r)'
<1> USE DEF RequestTypes, RequestFits, Goto, Took, accountVars, requestVars, historyVars,
            registryVars, caseVars, AskFits, SeenFits
<1>100. AccountTypes /\ RequestTypes /\ SeedFits
  BY DEF TypeInv
<1>101. req \in [Requests -> Question]
  BY <1>100
<1>1. CASE LoginBegins(r)
  <2>1. PICK u \in Users : Asks(r, "login", u, "word", None, None)
    BY <1>1 DEF LoginBegins
  <2>2. req'[r] \in Question /\ req'[r].kind = "login" /\ req'[r].key = u
    BY <1>101, <2>1, AskIs DEF Kinds
  <2>3. step'[r] \in {"refused", "look"} /\ held'[r] \in Nat
    BY <1>100, <1>1 DEF LoginBegins, AccountTypes, Lock
  <2> QED
    BY <2>2, <2>3 DEF UserKinds
<1>2. CASE ReadUsers(r)
  <2>1. /\ AskFits(req[r], step[r]) /\ req'[r] = req[r] /\ held'[r] = held[r]
        /\ req[r] \in Question /\ held[r] \in Nat /\ step[r] \in {"look", "read"}
        /\ req[r].kind = "create" => req[r].value = r
    BY <1>100, <1>2 DEF ReadUsers
  <2>2. CASE users \in {Absent, Torn}
    <3>1. step'[r] \in {"enoent", "failed"}
      BY <1>100, <1>2, <2>2 DEF ReadUsers
    <3>2. step'[r] = "enoent" => req[r].kind = "login"
      BY <1>100, <1>2, <2>1, <2>2, FilesAssumption DEF ReadUsers, SeedFits, Unused, UserKinds
    <3> QED
      BY <2>1, <3>1, <3>2
  <2>3. CASE users \notin {Absent, Torn}
    <3>1. seen'[r] = users /\ users \in UsersFile /\ step'[r] = AfterRead(r, users)
      BY <1>100, <1>2, <2>3 DEF ReadUsers, AccountTypes
    <3>2. CASE req[r].kind = "login"
      BY <2>1, <3>1, <3>2 DEF AfterRead, UserKinds
    <3>3. CASE req[r].kind = "password" /\ step[r] = "look"
      BY <2>1, <3>1, <3>3 DEF AfterRead, UserKinds
    <3>4. CASE req[r].kind \in UserKinds /\ step[r] = "read"
      <4>1. /\ step'[r] \in {"open", "refused"}
            /\ step'[r] = "open" => (req[r].kind = "create" <=> users[req[r].key] = None)
        BY <3>1, <3>4 DEF AfterRead, UserKinds
      <4> QED
        BY <2>1, <3>1, <3>4, <4>1 DEF UserKinds
    <3> QED
      BY <2>1, <3>2, <3>3, <3>4
  <2> QED
    BY <2>2, <2>3
<1>3. CASE Seed(r)
  BY <1>100, <1>3 DEF Seed
<1>4. CASE OpenSeeds(r)
  BY <1>100, <1>4 DEF OpenSeeds
<1>5. CASE Judge(r)
  BY <1>100, <1>5 DEF Judge
<1>6. CASE PasswordBegins(r)
  <2>1. PICK t \in Tokens : Live(t) /\ Asks(r, "password", sessions[t].user, "word", r, t)
    BY <1>6 DEF PasswordBegins
  <2>2. sessions[t].user \in Users
    BY <1>100, <2>1 DEF AccountTypes, Live, Session
  <2>3. /\ req'[r] \in Question /\ req'[r].kind = "password" /\ req'[r].key \in Users
        /\ req'[r].field = "word" /\ req'[r].value = r
    BY <1>101, <2>1, <2>2, AskIs DEF Kinds, UserKinds
  <2>4. step'[r] = "look" /\ held'[r] \in Nat
    BY <1>100, <1>6 DEF PasswordBegins
  <2> QED
    BY <2>3, <2>4
<1>7. CASE Verify(r)
  <2>1. /\ req'[r] = req[r] /\ held'[r] = held[r] /\ step'[r] \in {"refused", "read"}
        /\ step[r] = "verify"
    BY <1>100, <1>7 DEF Verify
  <2>2. req[r].kind = "password" /\ AskFits(req[r], "verify")
    BY <1>100, <2>1
  <2> QED
    BY <1>100, <2>1, <2>2 DEF UserKinds
<1>8. CASE UpdateBegins(r)
  <2>1. PICK u \in Users, patch \in Patches : Asks(r, "update", u, patch[1], patch[2], None)
    BY <1>8 DEF UpdateBegins
  <2>2. /\ patch[1] \in {"enabled", "role", "word"} /\ patch[2] \in Switch \cup Roles
        /\ <<patch[1], patch[2]>> \in Patches
    BY DEF Patches, Switch, Roles
  <2>3. /\ req'[r] \in Question /\ req'[r].kind = "update" /\ req'[r].key \in Users
        /\ <<req'[r].field, req'[r].value>> \in Patches
    BY <1>101, <2>1, <2>2, AskIs DEF Kinds, UserKinds
  <2>4. step'[r] = "read" /\ held'[r] \in Nat
    BY <1>100, <1>8 DEF UpdateBegins
  <2> QED
    BY <2>3, <2>4 DEF UserKinds
<1>9. CASE WordBegins(r)
  <2>1. PICK u \in Users, kind \in {"create", "reset"} : Asks(r, kind, u, "word", r, None)
    BY <1>9 DEF WordBegins
  <2>2. /\ req'[r] \in Question /\ req'[r].kind \in {"create", "reset"} /\ req'[r].key \in Users
        /\ req'[r].field = "word" /\ req'[r].value = r
    BY <1>101, <2>1, AskIs DEF Kinds, UserKinds
  <2>3. step'[r] = "read" /\ held'[r] \in Nat
    BY <1>100, <1>9 DEF WordBegins
  <2> QED
    BY <2>2, <2>3 DEF UserKinds
<1>10. CASE OpenUsers(r)
  BY <1>100, <1>10 DEF OpenUsers
<1>11. CASE FillUsers(r)
  BY <1>100, <1>11 DEF FillUsers
<1>12. CASE Logout(r)
  <2>1. Asks(r, "logout", None, "word", None, None)
    BY <1>12 DEF Logout
  <2>2. req'[r] \in Question /\ req'[r].kind = "logout"
    BY <1>101, <2>1, AskIs DEF Kinds
  <2>3. step'[r] = "audit" /\ held'[r] \in Nat
    BY <1>100, <1>12 DEF Logout
  <2> QED
    BY <2>2, <2>3 DEF UserKinds
<1>13. CASE Audit(r)
  BY <1>100, <1>13 DEF Audit
<1>14. CASE SessionExpired(r)
  BY <1>100, <1>14 DEF SessionExpired
<1> QED
  BY <1>1, <1>2, <1>3, <1>4, <1>5, <1>6, <1>7, <1>8, <1>9, <1>10, <1>11, <1>12, <1>13, <1>14 DEF AccountMove

LEMMA RegistryMoveRequests ==
  ASSUME TypeInv, NEW r \in Requests, RegistryMove(r)
  PROVE  RequestFits(r)' /\ \A p \in Requests \ {r} : id'[p] = id[p]
<1> USE DEF RequestTypes, RequestFits, Goto, Took, accountVars, requestVars, historyVars,
            registryVars, caseVars, promptVars, Proceed, Begins, AskFits, SeenFits
<1>100. RegistryTypes /\ RequestTypes
  BY DEF TypeInv
<1>101. req \in [Requests -> Question]
  BY <1>100
<1>1. CASE CaseBegins(r)
  <2>1. Asks(r, "case", None, "word", None, None)
    BY <1>1 DEF CaseBegins
  <2>2. req'[r] \in Question /\ req'[r].kind = "case"
    BY <1>101, <2>1, AskIs DEF Kinds
  <2>3. step'[r] \in {"list", "refused"} /\ held'[r] \in Nat
    BY <1>100, <1>1 DEF CaseBegins
  <2>4. UNCHANGED id
    BY <1>1 DEF CaseBegins
  <2> QED
    BY <2>2, <2>3, <2>4 DEF UserKinds
<1>2. CASE AllocateId(r)
  <2>1. PICK i \in FreeId : id' = [id EXCEPT ![r] = i]
    BY <1>2 DEF AllocateId
  <2>2. id'[r] \in Ids /\ \A p \in Requests \ {r} : id'[p] = id[p]
    BY <1>100, <2>1 DEF RegistryTypes, FreeId, Ids, Range
  <2>3. req'[r] = req[r] /\ held'[r] = held[r] /\ step'[r] = "mkdir" /\ step[r] = "list"
    BY <1>100, <1>2 DEF AllocateId
  <2> QED
    BY <1>100, <2>2, <2>3
<1>3. CASE MakeDirs(r)
  BY <1>100, <1>3 DEF MakeDirs
<1>4. CASE WriteManifest(r)
  BY <1>100, <1>4 DEF WriteManifest
<1>5. CASE ArchiveBegins(r)
  <2>1. PICK i \in Ids : Asks(r, "archive", i, "word", None, None)
    BY <1>5 DEF ArchiveBegins
  <2>2. req'[r] \in Question /\ req'[r].kind = "archive" /\ req'[r].key \in Ids
    BY <1>101, <2>1, AskIs DEF Kinds
  <2>3. step'[r] \in {"turn"} /\ held'[r] \in Nat
    BY <1>100, <1>5 DEF ArchiveBegins
  <2>4. UNCHANGED id
    BY <1>5 DEF ArchiveBegins
  <2> QED
    BY <2>2, <2>3, <2>4 DEF UserKinds
<1>6. CASE Turn(r)
  <2>1. /\ req'[r] = req[r] /\ held'[r] = held[r] /\ step[r] = "turn" /\ UNCHANGED id
        /\ step'[r] = IF manifest[req[r].key] # None THEN "save" ELSE "refused"
        /\ seen'[r] = manifest[req[r].key]
    BY <1>100, <1>6 DEF Turn
  <2>2. req[r].kind = "archive" /\ req[r].key \in Ids
    BY <1>100, <2>1
  <2>3. step'[r] = "save" => seen'[r] \in Requests
    BY <1>100, <2>1, <2>2 DEF RegistryTypes
  <2> QED
    BY <1>100, <2>1, <2>2, <2>3
<1>7. CASE SaveManifest(r)
  BY <1>100, <1>7 DEF SaveManifest
<1>8. CASE PromptBegins(r)
  <2>1. Asks(r, "prompt", None, "word", None, None)
    BY <1>8 DEF PromptBegins
  <2>2. req'[r] \in Question /\ req'[r].kind = "prompt"
    BY <1>101, <2>1, AskIs DEF Kinds
  <2>3. step'[r] \in {"previous"} /\ held'[r] \in Nat
    BY <1>100, <1>8 DEF PromptBegins
  <2>4. UNCHANGED id
    BY <1>8 DEF PromptBegins
  <2> QED
    BY <2>2, <2>3, <2>4 DEF UserKinds
<1>9. CASE ReadPrevious(r)
  <2>1. /\ req'[r] = req[r] /\ held'[r] = held[r] /\ step[r] = "previous" /\ UNCHANGED id
        /\ step'[r] = "keep" /\ seen'[r] = body
    BY <1>100, <1>9 DEF ReadPrevious
  <2> QED
    BY <1>100, <2>1 DEF RegistryTypes
<1>10. CASE KeepVersion(r)
  BY <1>100, <1>10 DEF KeepVersion
<1>11. CASE EmptyPrompt(r)
  BY <1>100, <1>11 DEF EmptyPrompt
<1>12. CASE WriteBody(r)
  BY <1>100, <1>12 DEF WriteBody
<1>13. CASE SkillBegins(r)
  <2>1. PICK s \in Skills, enabled \in Switch : Asks(r, "skill", s, "word", enabled, None)
    BY <1>13 DEF SkillBegins
  <2>2. /\ req'[r] \in Question
        /\ req'[r].kind = "skill"
        /\ req'[r].key \in Skills /\ req'[r].value \in Switch /\ req'[r].field = "word"
    BY <1>101, <2>1, AskIs DEF Kinds
  <2>3. step'[r] \in {"overrides"} /\ held'[r] \in Nat
    BY <1>100, <1>13 DEF SkillBegins
  <2>4. UNCHANGED id
    BY <1>13 DEF SkillBegins
  <2> QED
    BY <2>2, <2>3, <2>4 DEF UserKinds
<1>14. CASE ReadOverrides(r)
  <2>1. /\ req'[r] = req[r] /\ held'[r] = held[r] /\ step[r] = "overrides" /\ UNCHANGED id
        /\ step'[r] = IF overrides = Torn THEN "failed" ELSE "shut"
        /\ seen'[r] = overrides
    BY <1>100, <1>14 DEF ReadOverrides
  <2>2. step'[r] = "shut" => seen'[r] \in Overrides
    BY <1>100, <2>1 DEF RegistryTypes
  <2> QED
    BY <1>100, <2>1, <2>2
<1>15. CASE EmptyOverrides(r)
  BY <1>100, <1>15 DEF EmptyOverrides
<1>16. CASE WriteOverrides(r)
  BY <1>100, <1>16 DEF WriteOverrides
<1> QED
  BY <1>1, <1>2, <1>3, <1>4, <1>5, <1>6, <1>7, <1>8, <1>9, <1>10, <1>11, <1>12, <1>13, <1>14, <1>15, <1>16 DEF RegistryMove, CaseMove, PromptMove, SkillMove

(* Those who wait for the seeding go on together.                          *)
LEMMA FillSeedsDoes ==
  ASSUME RequestTypes, NEW r \in Requests, FillSeeds(r)
  PROVE  /\ step[r] = "sow" /\ users' = Seeds
         /\ UNCHANGED <<initial, sessions, locks, req, held, historyVars>>
         /\ \A q \in Requests :
              IF q = r \/ step[q] = "wait" THEN step'[q] = "judge" /\ seen'[q] = Seeds
                                          ELSE step'[q] = step[q] /\ seen'[q] = seen[q]
         /\ step' = [q \in Requests |-> step'[q]] /\ seen' = [q \in Requests |-> seen'[q]]
BY DEF FillSeeds, RequestTypes

LEMMA FillSeedsTypes ==
  ASSUME TypeInv, NEW r \in Requests, FillSeeds(r), UNCHANGED registryVars
  PROVE  RequestTypes'
<1>1. RequestTypes
  BY DEF TypeInv
<1>2. /\ step[r] = "sow" /\ UNCHANGED <<req, held, id>>
      /\ step' = [q \in Requests |-> step'[q]] /\ seen' = [q \in Requests |-> seen'[q]]
  BY <1>1, FillSeedsDoes DEF registryVars, caseVars
<1>3. ASSUME NEW q \in Requests
      PROVE  /\ AskFits(req[q], step[q])' /\ SeenFits(req[q], step[q], seen[q])'
             /\ (step[q] \in {"mkdir", "manifest"} => id[q] \in Ids)'
             /\ (req[q].kind = "create" => req[q].value = q)'
  <2>1. AskFits(req[q], step[q]) /\ SeenFits(req[q], step[q], seen[q])
    BY <1>1 DEF RequestTypes
  <2>2. CASE q = r \/ step[q] = "wait"
    <3>1. step'[q] = "judge" /\ seen'[q] \in UsersFile /\ req'[q] = req[q]
      BY <1>1, <1>2, <2>2, FillSeedsDoes, SeedsFit
    <3>2. step[q] \in {"sow", "wait"}
      BY <1>2, <2>2
    <3> QED
      BY <2>1, <3>1, <3>2 DEF AskFits, SeenFits
  <2>3. CASE ~(q = r \/ step[q] = "wait")
    BY <1>1, <1>2, <2>1, <2>3, FillSeedsDoes DEF RequestTypes
  <2> QED
    BY <2>2, <2>3
<1> QED
  BY <1>1, <1>2, <1>3 DEF RequestTypes

RestState(s) == IF s \in {"idle", "told", "refused"} THEN s ELSE "failed"

LEMMA RestartDoes ==
  ASSUME RequestTypes, Restart
  PROVE  /\ \A r \in Requests : step'[r] = RestState(step[r])
         /\ locks' = [u \in Users |-> NoLock] /\ guesses' = [u \in Users |-> 0]
         /\ sessions' = [t \in Tokens |-> None]
         /\ UNCHANGED <<users, initial, req, overlapped, raced, wrote, barred, late>>
BY DEF Restart, RestState

LEMMA RestartTypes ==
  ASSUME TypeInv, Restart, UNCHANGED registryVars
  PROVE  AccountTypes' /\ RequestTypes'
<1>1. AccountTypes /\ RequestTypes
  BY DEF TypeInv
<1>2. AccountTypes'
  BY <1>1 DEF Restart, AccountTypes, Lock, NoLock
<1>3. /\ step' = [r \in Requests |-> step'[r]] /\ seen' = [r \in Requests |-> seen'[r]]
      /\ held' \in [Requests -> Nat] /\ UNCHANGED req
  BY DEF Restart
<1>4. ASSUME NEW r \in Requests
      PROVE  /\ AskFits(req[r], step[r])' /\ SeenFits(req[r], step[r], seen[r])'
             /\ (step[r] \in {"mkdir", "manifest"} => id[r] \in Ids)'
             /\ (req[r].kind = "create" => req[r].value = r)'
  <2>1. /\ step'[r] = RestState(step[r]) /\ req'[r] = req[r] /\ AskFits(req[r], step[r])
        /\ req[r].kind = "create" => req[r].value = r
    BY <1>1, RestartDoes DEF RequestTypes
  <2> QED
    BY <2>1 DEF RestState, AskFits, SeenFits
<1> QED
  BY <1>1, <1>2, <1>3, <1>4 DEF RequestTypes

LEMMA TypesKept == TypeInv /\ SeedFits /\ [Next]_vars => TypeInv'
<1> SUFFICES ASSUME TypeInv, SeedFits, [Next]_vars PROVE TypeInv'
  OBVIOUS
<1>1. AccountTypes /\ RegistryTypes /\ RequestTypes
  BY DEF TypeInv
<1>2. UNCHANGED registryVars => RegistryTypes'
  BY <1>1 DEF RegistryTypes, registryVars, caseVars, promptVars
<1>3. ASSUME NEW r \in Requests, AccountMove(r), UNCHANGED registryVars PROVE TypeInv'
  <2>1. AccountTypes' /\ RegistryTypes'
    BY <1>2, <1>3, AccountMoveTypes
  <2>2. CASE FillSeeds(r)
    BY <1>3, <2>1, <2>2, FillSeedsTypes DEF TypeInv
  <2>3. CASE ~FillSeeds(r)
    <3>1. RequestFits(r)' /\ MovesAlone(r)
      BY <1>1, <1>3, <2>3, AccountMoveRequests, AccountMovesAlone
    <3>2. UNCHANGED id
      BY <1>3 DEF registryVars, caseVars
    <3> QED
      BY <1>1, <2>1, <3>1, <3>2, MoveKeepsRequests DEF TypeInv
  <2> QED
    BY <2>2, <2>3
<1>4. ASSUME NEW r \in Requests, RegistryMove(r) PROVE TypeInv'
  <2>1. AccountTypes' /\ RegistryTypes' /\ MovesAlone(r)
    BY <1>1, <1>4, RegistryMoveTypes, RegistryTypesKept, RegistryMovesAlone
  <2>2. RequestFits(r)' /\ \A p \in Requests \ {r} : id'[p] = id[p]
    BY <1>4, RegistryMoveRequests
  <2> QED
    BY <1>1, <2>1, <2>2, MoveKeepsRequests DEF TypeInv
<1>5. ASSUME LockExpires, UNCHANGED registryVars PROVE TypeInv'
  <2>1. AccountTypes'
    BY <1>1, <1>5 DEF LockExpires, AccountTypes, Lock, NoLock
  <2>2. RequestTypes'
    BY <1>1, <1>5 DEF LockExpires, RequestTypes, requestVars, registryVars, caseVars
  <2> QED
    BY <1>2, <1>5, <2>1, <2>2 DEF TypeInv
<1>6. ASSUME Restart, UNCHANGED registryVars PROVE TypeInv'
  BY <1>2, <1>6, RestartTypes DEF TypeInv
<1>7. ASSUME UNCHANGED vars PROVE TypeInv'
  <2> USE <1>7 DEF vars, accountVars, requestVars, historyVars, registryVars, caseVars
  <2>1. AccountTypes'
    BY <1>1 DEF AccountTypes
  <2>2. RequestTypes'
    BY <1>1 DEF RequestTypes
  <2> QED
    BY <1>2, <2>1, <2>2 DEF TypeInv
<1> QED
  BY <1>3, <1>4, <1>5, <1>6, <1>7, NextCases

-----------------------------------------------------------------------------
(* What a step leaves alone.                                               *)
Same(p) ==
  step'[p] = step[p] /\ req'[p] = req[p] /\ seen'[p] = seen[p] /\ held'[p] = held[p]
RacedBy(file) == raced \subseteq raced' /\ raced' \subseteq raced \cup {file}
WroteBy(r) == wrote' = wrote \/ wrote' = Append(wrote, r)

(* Whoever asks for one of these kinds of things stays where it is, or     *)
(* comes to its end.                                                       *)
Calm(p, kinds) ==
  \/ Same(p)
  \/ req'[p].kind \notin kinds
  \/ /\ req'[p] = req[p] /\ step'[p] \in {"told", "refused", "failed"}
     /\ step'[p] = "told" => step[p] \in {"audit", "told"}

LEMMA AloneIsSame ==
  ASSUME RequestTypes, NEW r \in Requests, MovesAlone(r)
  PROVE  \A p \in Requests \ {r} : Same(p)
BY DEF RequestTypes, MovesAlone, Same

RegistryKinds == {"case", "archive", "prompt", "skill"}
Files == <<users, initial, seeding, sessions, locks, guesses, overlapped, barred, late>>

LEMMA AccountsCalm ==
  ASSUME TypeInv, NEW r \in Requests, AccountMove(r)
  PROVE  /\ \A p \in Requests : Calm(p, RegistryKinds)
         /\ RacedBy("users") /\ WroteBy(r)
         /\ \A p \in Requests : step[p] # "idle" => req'[p] = req[p] /\ step'[p] # "idle"
         /\ step'[r] # "idle"
<1>1. RequestTypes /\ AccountTypes
  BY DEF TypeInv
<1>2. CASE FillSeeds(r)
  <2>1. UNCHANGED <<raced, wrote, req, held>> /\ step[r] = "sow"
    BY <1>1, <1>2, FillSeedsDoes DEF historyVars
  <2>2. ASSUME NEW p \in Requests
        PROVE  Calm(p, RegistryKinds) /\ (step[p] # "idle" => step'[p] # "idle")
    <3>1. AskFits(req[p], step[p])
      BY <1>1 DEF RequestTypes
    <3>2. CASE p = r \/ step[p] = "wait"
      <4>1. req'[p].kind = "login" /\ step'[p] = "judge"
        BY <1>1, <1>2, <2>1, <3>1, <3>2, FillSeedsDoes DEF AskFits
      <4> QED
        BY <4>1 DEF Calm, RegistryKinds
    <3>3. CASE ~(p = r \/ step[p] = "wait")
      BY <1>1, <1>2, <2>1, <3>3, FillSeedsDoes DEF Calm, Same
    <3> QED
      BY <3>2, <3>3
  <2> QED
    BY <2>1, <2>2 DEF RacedBy, WroteBy
<1>3. CASE ~FillSeeds(r)
  <2>1. \A p \in Requests \ {r} : Same(p)
    BY <1>1, <1>3, AccountMovesAlone, AloneIsSame
  <2>2. /\ RacedBy("users") /\ WroteBy(r)
        /\ \/ req'[r].kind \notin RegistryKinds
           \/ step[r] = "audit" /\ step'[r] \in {"told", "failed"} /\ req'[r] = req[r]
        /\ step[r] # "idle" => req'[r] = req[r]
        /\ step'[r] # "idle"
    <3> USE DEF RacedBy, WroteBy, historyVars, accountVars, requestVars
    <3>100. req[r] \in Question /\ AskFits(req[r], step[r]) /\ DOMAIN step = Requests
            /\ DOMAIN req = Requests
      BY <1>1 DEF RequestTypes
    <3>1. CASE LoginBegins(r)
      BY <3>100, <3>1 DEF LoginBegins, Goto, Asks, AskFits, UserKinds, RegistryKinds, AfterRead
    <3>2. CASE ReadUsers(r)
      BY <3>100, <3>2 DEF ReadUsers, Goto, Asks, AskFits, UserKinds, RegistryKinds, AfterRead
    <3>3. CASE Seed(r)
      BY <3>100, <3>3 DEF Seed, Goto, Asks, AskFits, UserKinds, RegistryKinds, AfterRead
    <3>4. CASE OpenSeeds(r)
      BY <3>100, <3>4 DEF OpenSeeds, Goto, Asks, AskFits, UserKinds, RegistryKinds, AfterRead
    <3>5. CASE Judge(r)
      BY <3>100, <3>5 DEF Judge, Goto, Asks, AskFits, UserKinds, RegistryKinds, AfterRead
    <3>6. CASE PasswordBegins(r)
      BY <3>100, <3>6 DEF PasswordBegins, Goto, Asks, AskFits, UserKinds, RegistryKinds, AfterRead
    <3>7. CASE Verify(r)
      BY <3>100, <3>7 DEF Verify, Goto, Asks, AskFits, UserKinds, RegistryKinds, AfterRead
    <3>8. CASE UpdateBegins(r)
      BY <3>100, <3>8 DEF UpdateBegins, Goto, Asks, AskFits, UserKinds, RegistryKinds, AfterRead
    <3>9. CASE WordBegins(r)
      BY <3>100, <3>9 DEF WordBegins, Goto, Asks, AskFits, UserKinds, RegistryKinds, AfterRead
    <3>10. CASE OpenUsers(r)
      BY <3>100, <3>10 DEF OpenUsers, Goto, Asks, AskFits, UserKinds, RegistryKinds, AfterRead
    <3>11. CASE FillUsers(r)
      BY <3>100, <3>11 DEF FillUsers, Goto, Asks, AskFits, UserKinds, RegistryKinds, AfterRead
    <3>12. CASE Logout(r)
      BY <3>100, <3>12 DEF Logout, Goto, Asks, AskFits, UserKinds, RegistryKinds, AfterRead
    <3>13. CASE Audit(r)
      BY <3>100, <3>13 DEF Audit, Goto, Asks, AskFits, UserKinds, RegistryKinds, AfterRead
    <3>14. CASE SessionExpired(r)
      BY <3>100, <3>14 DEF SessionExpired, Goto, Asks, AskFits, UserKinds, RegistryKinds, AfterRead
    <3> QED
      BY <1>3, <3>1, <3>2, <3>3, <3>4, <3>5, <3>6, <3>7, <3>8, <3>9, <3>10, <3>11, <3>12, <3>13, <3>14 DEF AccountMove
  <2>3. Calm(r, RegistryKinds)
    BY <2>2 DEF Calm
  <2> QED
    BY <2>1, <2>2, <2>3 DEF Calm, Same
<1> QED
  BY <1>2, <1>3

(* A step of a request to one registry leaves the others and the accounts  *)
(* alone, and is that of somebody who has logged in.                       *)
Elsewhere(r, kinds) ==
  /\ \A p \in Requests \ {r} : Same(p)
  /\ req'[r].kind \in kinds /\ WroteBy(r) /\ UNCHANGED Files
  /\ step[r] # "idle" => req'[r] = req[r]
  /\ step'[r] # "idle"
  /\ (\E t \in Tokens : sessions[t] # None) \/ req[r].kind \in kinds

LEMMA CaseMoveIsElsewhere ==
  ASSUME TypeInv, NEW r \in Requests, CaseMove(r)
  PROVE  Elsewhere(r, {"case", "archive"}) /\ RacedBy("cases") /\ UNCHANGED <<body, versions, overrides>>
<1>100. RequestTypes /\ req[r] \in Question /\ AskFits(req[r], step[r])
  BY DEF TypeInv, RequestTypes
<1>101. \A p \in Requests \ {r} : Same(p)
  BY <1>100, RegistryMovesAlone, AloneIsSame DEF RegistryMove
<1>102. DOMAIN step = Requests /\ DOMAIN req = Requests
  BY <1>100 DEF RequestTypes
<1> USE <1>100, <1>101, <1>102 DEF Elsewhere, RacedBy, WroteBy, Files, historyVars, accountVars, Begins, Proceed,
      registryVars, caseVars, promptVars, Asks, Goto, AskFits, Race, Wrote, Admitted, Live
<1>1. CASE CaseBegins(r)
  BY <1>1 DEF CaseBegins
<1>2. CASE AllocateId(r)
  BY <1>2 DEF AllocateId
<1>3. CASE MakeDirs(r)
  BY <1>3 DEF MakeDirs
<1>4. CASE WriteManifest(r)
  BY <1>4 DEF WriteManifest
<1>5. CASE ArchiveBegins(r)
  BY <1>5 DEF ArchiveBegins
<1>6. CASE Turn(r)
  BY <1>6 DEF Turn
<1>7. CASE SaveManifest(r)
  BY <1>7 DEF SaveManifest
<1> QED
  BY <1>1, <1>2, <1>3, <1>4, <1>5, <1>6, <1>7 DEF CaseMove

LEMMA PromptMoveIsElsewhere ==
  ASSUME TypeInv, NEW r \in Requests, PromptMove(r)
  PROVE  Elsewhere(r, {"prompt"}) /\ RacedBy("prompts") /\ UNCHANGED <<caseVars, overrides>>
<1>100. RequestTypes /\ req[r] \in Question /\ AskFits(req[r], step[r])
  BY DEF TypeInv, RequestTypes
<1>101. \A p \in Requests \ {r} : Same(p)
  BY <1>100, RegistryMovesAlone, AloneIsSame DEF RegistryMove
<1>102. DOMAIN step = Requests /\ DOMAIN req = Requests
  BY <1>100 DEF RequestTypes
<1> USE <1>100, <1>101, <1>102 DEF Elsewhere, RacedBy, WroteBy, Files, historyVars, accountVars, Begins, Proceed,
      registryVars, caseVars, promptVars, Asks, Goto, AskFits, Race, Wrote, Governs, Admitted, Live
<1>1. CASE PromptBegins(r)
  BY <1>1 DEF PromptBegins
<1>2. CASE ReadPrevious(r)
  BY <1>2 DEF ReadPrevious
<1>3. CASE KeepVersion(r)
  BY <1>3 DEF KeepVersion
<1>4. CASE EmptyPrompt(r)
  BY <1>4 DEF EmptyPrompt
<1>5. CASE WriteBody(r)
  BY <1>5 DEF WriteBody
<1> QED
  BY <1>1, <1>2, <1>3, <1>4, <1>5 DEF PromptMove

LEMMA SkillMoveIsElsewhere ==
  ASSUME TypeInv, NEW r \in Requests, SkillMove(r)
  PROVE  Elsewhere(r, {"skill"}) /\ RacedBy("skills") /\ UNCHANGED <<caseVars, body, versions>>
<1>100. RequestTypes /\ req[r] \in Question /\ AskFits(req[r], step[r])
  BY DEF TypeInv, RequestTypes
<1>101. \A p \in Requests \ {r} : Same(p)
  BY <1>100, RegistryMovesAlone, AloneIsSame DEF RegistryMove
<1>102. DOMAIN step = Requests /\ DOMAIN req = Requests
  BY <1>100 DEF RequestTypes
<1> USE <1>100, <1>101, <1>102 DEF Elsewhere, RacedBy, WroteBy, Files, historyVars, accountVars, Begins, Proceed,
      registryVars, caseVars, promptVars, Asks, Goto, AskFits, Race, Wrote, Governs, Admitted, Live
<1>1. CASE SkillBegins(r)
  BY <1>1 DEF SkillBegins
<1>2. CASE ReadOverrides(r)
  BY <1>2 DEF ReadOverrides
<1>3. CASE EmptyOverrides(r)
  BY <1>3 DEF EmptyOverrides
<1>4. CASE WriteOverrides(r)
  BY <1>4 DEF WriteOverrides
<1> QED
  BY <1>1, <1>2, <1>3, <1>4 DEF SkillMove

(* A registry is left alone by every step that is not one of its own.      *)
LeftAlone(kinds, files) == (\A p \in Requests : Calm(p, kinds)) /\ files' = files
CaseKinds == {"case", "archive"}

LEMMA ElsewhereIsCalm ==
  ASSUME NEW r \in Requests, NEW own, NEW kinds, Elsewhere(r, own), own \cap kinds = {}
  PROVE  \A p \in Requests : Calm(p, kinds)
BY DEF Elsewhere, Calm

LEMMA RestartIsCalm ==
  ASSUME TypeInv, Restart, NEW kinds, "none" \notin kinds
  PROVE  \A p \in Requests : Calm(p, kinds)
<1> SUFFICES ASSUME NEW p \in Requests PROVE Calm(p, kinds)
  OBVIOUS
<1>1. step'[p] = RestState(step[p]) /\ req'[p] = req[p] /\ AskFits(req[p], step[p])
  BY RestartDoes DEF TypeInv, RequestTypes
<1>2. CASE step[p] = "idle"
  BY <1>1, <1>2 DEF Calm, AskFits
<1>3. CASE step[p] # "idle"
  BY <1>1, <1>3 DEF Calm, RestState
<1> QED
  BY <1>2, <1>3

LEMMA CalmOfFewer ==
  ASSUME NEW p, NEW kinds, NEW fewer \in SUBSET kinds, Calm(p, kinds)
  PROVE  Calm(p, fewer)
BY DEF Calm

LEMMA StepsApart ==
  ASSUME TypeInv, [Next]_vars
  PROVE  /\ raced \subseteq raced'
         /\ LeftAlone(CaseKinds, caseVars) \/ \E r \in Requests : CaseMove(r)
         /\ LeftAlone({"prompt"}, promptVars) \/ \E r \in Requests : PromptMove(r)
         /\ LeftAlone({"skill"}, overrides) \/ \E r \in Requests : SkillMove(r)
         /\ \A p \in Requests : step[p] # "idle" => req'[p] = req[p] /\ step'[p] # "idle"
         /\ \/ wrote' = wrote
            \/ \E r \in Requests : wrote' = Append(wrote, r) /\ step'[r] # "idle"
<1> DEFINE Others ==
      \A p \in Requests : step[p] # "idle" => req'[p] = req[p] /\ step'[p] # "idle"
<1> USE DEF RacedBy, WroteBy, LeftAlone, CaseKinds, registryVars
<1>1. ASSUME NEW r \in Requests, AccountMove(r), UNCHANGED registryVars
      PROVE  /\ raced \subseteq raced' /\ Others /\ WroteBy(r) /\ step'[r] # "idle"
             /\ LeftAlone(CaseKinds, caseVars) /\ LeftAlone({"prompt"}, promptVars)
             /\ LeftAlone({"skill"}, overrides)
  BY <1>1, AccountsCalm, CalmOfFewer DEF RegistryKinds
<1>2. ASSUME NEW r \in Requests, CaseMove(r)
      PROVE  /\ raced \subseteq raced' /\ Others /\ WroteBy(r) /\ step'[r] # "idle"
             /\ LeftAlone({"prompt"}, promptVars) /\ LeftAlone({"skill"}, overrides)
  <2>1. Elsewhere(r, CaseKinds) /\ RacedBy("cases") /\ UNCHANGED <<body, versions, overrides>>
    BY <1>2, CaseMoveIsElsewhere
  <2>2. \A p \in Requests : Calm(p, {"prompt"}) /\ Calm(p, {"skill"})
    BY <2>1, ElsewhereIsCalm
  <2> QED
    BY <2>1, <2>2 DEF Elsewhere, Same, promptVars
<1>3. ASSUME NEW r \in Requests, PromptMove(r)
      PROVE  /\ raced \subseteq raced' /\ Others /\ WroteBy(r) /\ step'[r] # "idle"
             /\ LeftAlone(CaseKinds, caseVars) /\ LeftAlone({"skill"}, overrides)
  <2>1. Elsewhere(r, {"prompt"}) /\ RacedBy("prompts") /\ UNCHANGED <<caseVars, overrides>>
    BY <1>3, PromptMoveIsElsewhere
  <2>2. \A p \in Requests : Calm(p, CaseKinds) /\ Calm(p, {"skill"})
    BY <2>1, ElsewhereIsCalm
  <2> QED
    BY <2>1, <2>2 DEF Elsewhere, Same
<1>4. ASSUME NEW r \in Requests, SkillMove(r)
      PROVE  /\ raced \subseteq raced' /\ Others /\ WroteBy(r) /\ step'[r] # "idle"
             /\ LeftAlone(CaseKinds, caseVars) /\ LeftAlone({"prompt"}, promptVars)
  <2>1. Elsewhere(r, {"skill"}) /\ RacedBy("skills") /\ UNCHANGED <<caseVars, body, versions>>
    BY <1>4, SkillMoveIsElsewhere
  <2>2. \A p \in Requests : Calm(p, CaseKinds) /\ Calm(p, {"prompt"})
    BY <2>1, ElsewhereIsCalm
  <2> QED
    BY <2>1, <2>2 DEF Elsewhere, Same, promptVars
<1>5. ASSUME Restart, UNCHANGED registryVars
      PROVE  /\ UNCHANGED <<raced, wrote>> /\ Others
             /\ LeftAlone(CaseKinds, caseVars) /\ LeftAlone({"prompt"}, promptVars)
             /\ LeftAlone({"skill"}, overrides)
  <2>1. Others /\ UNCHANGED <<raced, wrote>>
    BY <1>5, RestartDoes DEF TypeInv, RestState
  <2>2. \A p \in Requests : Calm(p, CaseKinds) /\ Calm(p, {"prompt"}) /\ Calm(p, {"skill"})
    BY <1>5, RestartIsCalm
  <2> QED
    BY <1>5, <2>1, <2>2
<1>6. ASSUME UNCHANGED <<requestVars, raced, wrote, registryVars>>
      PROVE  /\ UNCHANGED <<raced, wrote>> /\ Others
             /\ LeftAlone(CaseKinds, caseVars) /\ LeftAlone({"prompt"}, promptVars)
             /\ LeftAlone({"skill"}, overrides)
  BY <1>6 DEF Calm, Same, requestVars
<1>7. LockExpires \/ UNCHANGED vars => UNCHANGED <<requestVars, raced, wrote>>
  BY DEF LockExpires, vars, historyVars
<1>8. UNCHANGED vars => UNCHANGED registryVars
  BY DEF vars
<1> HIDE DEF Others, LeftAlone
<1> QED
  BY <1>1, <1>2, <1>3, <1>4, <1>5, <1>6, <1>7, <1>8, NextCases DEF RegistryMove, Others

(* So is users.json, but by four steps.                                    *)
UsersQuiet(p) ==
  req'[p].kind \in UserKinds /\ step'[p] \in {"fill", "audit", "told"} =>
    /\ req'[p] = req[p]
    /\ IF step'[p] = "fill" THEN step[p] = "fill" /\ seen'[p] = seen[p]
                            ELSE step[p] \in {"audit", "told"}

LEMMA CalmIsQuiet ==
  ASSUME NEW p, Calm(p, UserKinds)
  PROVE  UsersQuiet(p)
BY DEF Calm, UsersQuiet, Same

LEMMA AccountsQuiet ==
  ASSUME TypeInv, NEW r \in Requests, AccountMove(r)
  PROVE  \/ (\A p \in Requests : UsersQuiet(p)) /\ UNCHANGED <<users, barred>>
         \/ (\A p \in Requests : UsersQuiet(p)) /\ (OpenSeeds(r) \/ FillSeeds(r))
         \/ OpenUsers(r) \/ FillUsers(r)
<1>1. RequestTypes
  BY DEF TypeInv
<1>2. CASE FillSeeds(r)
  <2>1. step[r] = "sow" /\ UNCHANGED req
    BY <1>1, <1>2, FillSeedsDoes
  <2>2. ASSUME NEW p \in Requests PROVE UsersQuiet(p)
    BY <1>1, <1>2, <2>1, FillSeedsDoes DEF UsersQuiet
  <2> QED
    BY <1>2, <2>2
<1>3. CASE ~FillSeeds(r)
  <2>1. \A p \in Requests \ {r} : UsersQuiet(p)
    BY <1>1, <1>3, AccountMovesAlone, AloneIsSame DEF Same, UsersQuiet
  <2>2. \/ UsersQuiet(r) /\ UNCHANGED <<users, barred>>
        \/ UsersQuiet(r) /\ OpenSeeds(r)
        \/ OpenUsers(r) \/ FillUsers(r)
    <3> USE DEF UsersQuiet, historyVars, accountVars, requestVars
    <3>100. req[r] \in Question /\ AskFits(req[r], step[r]) /\ DOMAIN step = Requests
            /\ DOMAIN req = Requests
      BY <1>1 DEF RequestTypes
    <3>1. CASE LoginBegins(r)
      BY <3>100, <3>1 DEF LoginBegins, Goto, Asks, AskFits, UserKinds, AfterRead
    <3>2. CASE ReadUsers(r)
      BY <3>100, <3>2 DEF ReadUsers, Goto, Asks, AskFits, UserKinds, AfterRead
    <3>3. CASE Seed(r)
      BY <3>100, <3>3 DEF Seed, Goto, Asks, AskFits, UserKinds, AfterRead
    <3>4. CASE OpenSeeds(r)
      BY <3>100, <3>4 DEF OpenSeeds, Goto, Asks, AskFits, UserKinds, AfterRead
    <3>5. CASE Judge(r)
      BY <3>100, <3>5 DEF Judge, Goto, Asks, AskFits, UserKinds, AfterRead
    <3>6. CASE PasswordBegins(r)
      BY <3>100, <3>6 DEF PasswordBegins, Goto, Asks, AskFits, UserKinds, AfterRead
    <3>7. CASE Verify(r)
      BY <3>100, <3>7 DEF Verify, Goto, Asks, AskFits, UserKinds, AfterRead
    <3>8. CASE UpdateBegins(r)
      BY <3>100, <3>8 DEF UpdateBegins, Goto, Asks, AskFits, UserKinds, AfterRead
    <3>9. CASE WordBegins(r)
      BY <3>100, <3>9 DEF WordBegins, Goto, Asks, AskFits, UserKinds, AfterRead
    <3>10. CASE Logout(r)
      BY <3>100, <3>10 DEF Logout, Goto, Asks, AskFits, UserKinds, AfterRead
    <3>11. CASE Audit(r)
      BY <3>100, <3>11 DEF Audit, Goto, Asks, AskFits, UserKinds, AfterRead
    <3>12. CASE SessionExpired(r)
      BY <3>100, <3>12 DEF SessionExpired, Goto, Asks, AskFits, UserKinds, AfterRead
    <3> QED
      BY <1>3, <3>1, <3>2, <3>3, <3>4, <3>5, <3>6, <3>7, <3>8, <3>9, <3>10, <3>11, <3>12 DEF AccountMove
  <2> QED
    BY <2>1, <2>2
<1> QED
  BY <1>2, <1>3

LEMMA UsersApart ==
  ASSUME TypeInv, [Next]_vars
  PROVE  \/ (\A p \in Requests : UsersQuiet(p)) /\ UNCHANGED <<users, barred>>
         \/ \E r \in Requests :
              /\ OpenSeeds(r) \/ FillSeeds(r)
              /\ \A p \in Requests : UsersQuiet(p)
         \/ \E r \in Requests : OpenUsers(r) \/ FillUsers(r)
<1>1. ASSUME NEW r \in Requests, RegistryMove(r)
      PROVE  (\A p \in Requests : UsersQuiet(p)) /\ UNCHANGED <<users, barred>>
  <2>1. PICK kinds \in {CaseKinds, {"prompt"}, {"skill"}} : Elsewhere(r, kinds)
    BY <1>1, CaseMoveIsElsewhere, PromptMoveIsElsewhere, SkillMoveIsElsewhere
    DEF RegistryMove, CaseKinds
  <2>2. kinds \cap UserKinds = {}
    BY DEF CaseKinds, UserKinds
  <2>3. \A p \in Requests : Calm(p, UserKinds)
    BY <2>1, <2>2, ElsewhereIsCalm
  <2> QED
    BY <2>1, <2>3, CalmIsQuiet DEF Elsewhere, Files
<1>2. ASSUME Restart
      PROVE  (\A p \in Requests : UsersQuiet(p)) /\ UNCHANGED <<users, barred>>
  BY <1>2, RestartIsCalm, CalmIsQuiet, RestartDoes DEF TypeInv, UserKinds
<1>3. ASSUME LockExpires \/ UNCHANGED vars
      PROVE  (\A p \in Requests : UsersQuiet(p)) /\ UNCHANGED <<users, barred>>
  BY <1>3 DEF LockExpires, UsersQuiet, vars, accountVars, requestVars, historyVars
<1> QED
  BY <1>1, <1>2, <1>3, NextCases, AccountsQuiet

LEMMA FileIs ==
  ASSUME NEW r
  PROVE  /\ File(r) = "users" <=> req[r].kind \in UserKinds
         /\ File(r) = "skills" <=> req[r].kind = "skill"
BY DEF File, UserKinds

-----------------------------------------------------------------------------
(* The list of the writers.                                                *)
LEMMA WroteGrows ==
  ASSUME TypeInv, [Next]_vars
  PROVE  /\ DOMAIN wrote \subseteq DOMAIN wrote' /\ DOMAIN wrote \subseteq Nat
         /\ \A i \in DOMAIN wrote : wrote'[i] = wrote[i] /\ wrote[i] \in Requests
         /\ \A i \in DOMAIN wrote' \ DOMAIN wrote : step'[wrote'[i]] # "idle"
<1>1. wrote \in Seq(Requests)
  BY DEF TypeInv, AccountTypes
<1>2. \/ wrote' = wrote
      \/ \E r \in Requests : wrote' = Append(wrote, r) /\ step'[r] # "idle"
  BY StepsApart
<1> QED
  BY <1>1, <1>2

LEMMA SupersededStays ==
  ASSUME TypeInv, WroteFits, [Next]_vars, NEW r \in Requests, Superseded(r)
  PROVE  Superseded(r)'
<1>1. PICK i, j \in DOMAIN wrote :
        /\ i < j /\ wrote[i] = r /\ File(wrote[j]) = File(r)
        /\ req[wrote[j]].key = req[r].key /\ req[wrote[j]].field = req[r].field
  BY DEF Superseded
<1>2. step[r] # "idle" /\ step[wrote[j]] # "idle"
  BY <1>1 DEF WroteFits
<1>3. /\ i \in DOMAIN wrote' /\ j \in DOMAIN wrote' /\ wrote[j] \in Requests
      /\ wrote'[i] = r /\ wrote'[j] = wrote[j]
  BY <1>1, WroteGrows
<1>4. req'[r] = req[r] /\ req'[wrote[j]] = req[wrote[j]]
  BY <1>2, <1>3, StepsApart
<1>5. File(r)' = File(r) /\ File(wrote[j])' = File(wrote[j])
  BY <1>4, <1>3 DEF File
<1> QED
  BY <1>1, <1>3, <1>4, <1>5 DEF Superseded

(* A later write of the same supersedes an earlier one.                    *)
LEMMA LaterSupersedes ==
  ASSUME TypeInv, WroteFits, [Next]_vars, NEW r \in Requests, Listed(r),
         NEW q \in Requests, wrote' = Append(wrote, q), step[q] # "idle",
         req[q].key = req[r].key, req[q].field = req[r].field, File(q) = File(r)
  PROVE  Superseded(r)'
<1>1. PICK i \in DOMAIN wrote : wrote[i] = r
  BY DEF Listed
<1>2. wrote \in Seq(Requests)
  BY DEF TypeInv, AccountTypes
<1>3. PICK j \in DOMAIN wrote' : i < j /\ i \in DOMAIN wrote' /\ wrote'[i] = r /\ wrote'[j] = q
  <2>1. Len(wrote) + 1 \in DOMAIN wrote' /\ wrote'[Len(wrote) + 1] = q
    BY <1>2
  <2>2. i < Len(wrote) + 1 /\ i \in DOMAIN wrote' /\ wrote'[i] = r
    BY <1>1, <1>2
  <2> QED
    BY <2>1, <2>2
<1>4. req'[r] = req[r] /\ req'[q] = req[q]
  BY <1>1, StepsApart DEF WroteFits
<1>5. File(r)' = File(r) /\ File(wrote[j])' = File(q)
  BY <1>3, <1>4 DEF File
<1> QED
  BY <1>3, <1>4, <1>5 DEF Superseded

LEMMA ListedStays ==
  ASSUME TypeInv, [Next]_vars, NEW r, Listed(r)
  PROVE  Listed(r)'
<1>1. PICK i \in DOMAIN wrote : wrote[i] = r
  BY DEF Listed
<1> QED
  BY <1>1, WroteGrows DEF Listed

LEMMA AppendedIsListed ==
  ASSUME TypeInv, NEW r \in Requests, wrote' = Append(wrote, r)
  PROVE  Listed(r)'
<1>1. wrote \in Seq(Requests)
  BY DEF TypeInv, AccountTypes
<1>2. Len(wrote) + 1 \in DOMAIN wrote' /\ wrote'[Len(wrote) + 1] = r
  BY <1>1
<1> QED
  BY <1>2 DEF Listed

(* Whose change is acknowledged now was acknowledged, or it was written    *)
(* with this step.                                                         *)
LEMMA UsersAcknowledged ==
  ASSUME TypeInv, [Next]_vars, NEW r \in Requests, Acknowledged(r, "users")'
  PROVE  /\ req'[r] = req[r]
         /\ Acknowledged(r, "users") \/ FillUsers(r)
<1>1. step'[r] \in {"audit", "told"} /\ req'[r].kind \in UserKinds
  BY DEF Acknowledged, File, UserKinds
<1>2. CASE UsersQuiet(r)
  <2>1. req'[r] = req[r] /\ step[r] \in {"audit", "told"}
    BY <1>1, <1>2 DEF UsersQuiet
  <2> QED
    BY <1>1, <2>1, FileIs DEF Acknowledged
<1>3. ASSUME NEW q \in Requests, OpenUsers(q)
      PROVE  req'[r] = req[r] /\ step[r] \in {"audit", "told"}
  BY <1>1, <1>3 DEF OpenUsers, Goto, TypeInv, RequestTypes
<1>4. ASSUME NEW q \in Requests, FillUsers(q)
      PROVE  req'[r] = req[r] /\ (step[r] \in {"audit", "told"} \/ q = r)
  BY <1>1, <1>4 DEF FillUsers, Goto, TypeInv, RequestTypes
<1>5. req'[r] = req[r] /\ step[r] \in {"audit", "told"} => Acknowledged(r, "users")
  BY <1>1, FileIs DEF Acknowledged
<1> QED
  BY <1>2, <1>3, <1>4, <1>5, UsersApart

LEMMA SkillsAcknowledged ==
  ASSUME TypeInv, [Next]_vars, NEW r \in Requests, Acknowledged(r, "skills")'
  PROVE  /\ req'[r] = req[r]
         /\ Acknowledged(r, "skills") \/ WriteOverrides(r)
<1>1. step'[r] \in {"audit", "told"} /\ req'[r].kind = "skill"
  BY DEF Acknowledged, File, UserKinds
<1>2. CASE Calm(r, {"skill"})
  <2>1. req'[r] = req[r] /\ step[r] \in {"audit", "told"}
    BY <1>1, <1>2 DEF Calm, Same
  <2> QED
    BY <1>1, <2>1, FileIs DEF Acknowledged
<1>3. ASSUME NEW q \in Requests, SkillMove(q), q # r PROVE Calm(r, {"skill"})
  BY <1>3, SkillMoveIsElsewhere DEF Elsewhere, Calm
<1>4. CASE SkillMove(r)
  <2>1. WriteOverrides(r)
    BY <1>1, <1>4 DEF SkillMove, SkillBegins, ReadOverrides, EmptyOverrides, Begins, Proceed, Goto,
                      TypeInv, RequestTypes
  <2> QED
    BY <2>1 DEF WriteOverrides, Proceed
<1> QED
  BY <1>2, <1>3, <1>4, StepsApart DEF LeftAlone

LEMMA WroteKept == TypeInv /\ WroteFits /\ [Next]_vars => WroteFits'
<1> SUFFICES ASSUME TypeInv, WroteFits, [Next]_vars PROVE WroteFits'
  OBVIOUS
<1>1. ASSUME NEW i \in DOMAIN wrote' PROVE step'[wrote'[i]] # "idle"
  <2>1. CASE i \in DOMAIN wrote
    BY <2>1, WroteGrows, StepsApart DEF WroteFits
  <2>2. CASE i \notin DOMAIN wrote
    BY <2>2, WroteGrows
  <2> QED
    BY <2>1, <2>2
<1>2. ASSUME NEW r \in Requests, Acknowledged(r, "users")' PROVE Listed(r)'
  <2>1. CASE Acknowledged(r, "users")
    BY <2>1, ListedStays DEF WroteFits
  <2>2. CASE FillUsers(r)
    BY <2>2, AppendedIsListed DEF FillUsers
  <2> QED
    BY <1>2, <2>1, <2>2, UsersAcknowledged
<1>3. ASSUME NEW r \in Requests, Acknowledged(r, "skills")' PROVE Listed(r)'
  <2>1. CASE Acknowledged(r, "skills")
    BY <2>1, ListedStays DEF WroteFits
  <2>2. CASE WriteOverrides(r)
    BY <2>2, AppendedIsListed DEF WriteOverrides, Wrote
  <2> QED
    BY <1>3, <2>1, <2>2, SkillsAcknowledged
<1> QED
  BY <1>1, <1>2, <1>3 DEF WroteFits

-----------------------------------------------------------------------------
(* Nobody but a login seeds, and none does after users.json is there.      *)
LEMMA RegistryMoveIsElsewhere ==
  ASSUME TypeInv, NEW r \in Requests, RegistryMove(r)
  PROVE  Elsewhere(r, RegistryKinds)
BY CaseMoveIsElsewhere, PromptMoveIsElsewhere, SkillMoveIsElsewhere
   DEF RegistryMove, Elsewhere, RegistryKinds

LEMMA UnusedStays ==
  ASSUME TypeInv, Unused, [Next]_vars, users \in {Absent, Torn},
         \A r \in Requests : ~FillSeeds(r)
  PROVE  Unused'
<1>1. RequestTypes /\ AccountTypes
  BY DEF TypeInv
<1>2. ASSUME NEW r \in Requests, AccountMove(r) PROVE Unused'
  <2>1. ~FillSeeds(r)
    OBVIOUS
  <2>2. \A p \in Requests \ {r} : Same(p)
    BY <1>1, <1>2, <2>1, AccountMovesAlone, AloneIsSame
  <2>3. \A t \in Tokens : ~Live(t) /\ ~Governs(t)
    BY DEF Unused, Live, Governs, Admitted
  <2>4. /\ UNCHANGED <<sessions, barred>>
        /\ req'[r].kind \in {"none", "login"} /\ step'[r] # "judge"
    <3>100. /\ req[r] \in Question /\ AskFits(req[r], step[r]) /\ DOMAIN step = Requests
            /\ DOMAIN req = Requests /\ req[r].kind \in {"none", "login"} /\ step[r] # "judge"
      BY <1>1 DEF RequestTypes, Unused
    <3> USE <3>100 DEF historyVars, accountVars, requestVars
    <3>1. CASE LoginBegins(r)
      BY <2>3, <3>1 DEF LoginBegins, Goto, Asks, AskFits, UserKinds
    <3>2. CASE ReadUsers(r)
      BY <2>3, <3>2 DEF ReadUsers, Goto, Asks, AskFits, UserKinds
    <3>3. CASE Seed(r)
      BY <2>3, <3>3 DEF Seed, Goto, Asks, AskFits, UserKinds
    <3>4. CASE OpenSeeds(r)
      BY <2>3, <3>4 DEF OpenSeeds, Goto, Asks, AskFits, UserKinds
    <3>5. CASE Judge(r)
      BY <2>3, <3>5 DEF Judge, Goto, Asks, AskFits, UserKinds
    <3>6. CASE PasswordBegins(r)
      BY <2>3, <3>6 DEF PasswordBegins, Goto, Asks, AskFits, UserKinds
    <3>7. CASE Verify(r)
      BY <2>3, <3>7 DEF Verify, Goto, Asks, AskFits, UserKinds
    <3>8. CASE UpdateBegins(r)
      BY <2>3, <3>8 DEF UpdateBegins, Goto, Asks, AskFits, UserKinds
    <3>9. CASE WordBegins(r)
      BY <2>3, <3>9 DEF WordBegins, Goto, Asks, AskFits, UserKinds
    <3>10. CASE OpenUsers(r)
      BY <2>3, <3>10 DEF OpenUsers, Goto, Asks, AskFits, UserKinds
    <3>11. CASE FillUsers(r)
      BY <2>3, <3>11 DEF FillUsers, Goto, Asks, AskFits, UserKinds
    <3>12. CASE Logout(r)
      BY <2>3, <3>12 DEF Logout, Goto, Asks, AskFits, UserKinds
    <3>13. CASE Audit(r)
      BY <2>3, <3>13 DEF Audit, Goto, Asks, AskFits, UserKinds
    <3>14. CASE SessionExpired(r)
      BY <2>3, <3>14 DEF SessionExpired, Goto, Asks, AskFits, UserKinds
    <3> QED
      BY <1>2, <2>1, <3>1, <3>2, <3>3, <3>4, <3>5, <3>6, <3>7, <3>8, <3>9, <3>10, <3>11, <3>12, <3>13, <3>14
      DEF AccountMove
  <2> QED
    BY <2>2, <2>4 DEF Unused, Same
<1>3. ASSUME NEW r \in Requests, RegistryMove(r) PROVE FALSE
  BY <1>3, RegistryMoveIsElsewhere DEF Elsewhere, Unused, RegistryKinds
<1>4. CASE Restart
  BY <1>1, <1>4, RestartDoes DEF Unused, RestState
<1>5. CASE LockExpires \/ UNCHANGED vars
  BY <1>5 DEF Unused, LockExpires, vars, accountVars, requestVars, historyVars
<1> QED
  BY <1>2, <1>3, <1>4, <1>5, NextCases

LEMMA SowSteps ==
  ASSUME TypeInv, TypeInv', [Next]_vars, NEW p \in Requests, step'[p] = "sow"
  PROVE  (step[p] = "sow" /\ ~FillSeeds(p)) \/ OpenSeeds(p)
<1>1. RequestTypes /\ AccountTypes
  BY DEF TypeInv
<1>2. ASSUME NEW r \in Requests, AccountMove(r)
      PROVE  (step[p] = "sow" /\ ~FillSeeds(p)) \/ OpenSeeds(p)
  <2>1. CASE FillSeeds(r)
    BY <1>1, <2>1, FillSeedsDoes
  <2>2. CASE ~FillSeeds(r) /\ p # r
    <3>1. step[p] = "sow"
      BY <1>1, <1>2, <2>2, AccountMovesAlone, AloneIsSame DEF Same
    <3>2. FillSeeds(p) => step'[p] = "judge"
      BY <1>1, FillSeedsDoes
    <3> QED
      BY <3>1, <3>2
  <2>3. CASE ~FillSeeds(r) /\ p = r
    <3>100. AskFits(req[r], step[r]) /\ DOMAIN step = Requests
      BY <1>1 DEF RequestTypes
    <3>1. CASE LoginBegins(r)
      BY <2>3, <3>100, <3>1 DEF LoginBegins, Goto, AskFits, AfterRead, requestVars
    <3>2. CASE ReadUsers(r)
      BY <2>3, <3>100, <3>2 DEF ReadUsers, Goto, AskFits, AfterRead, requestVars
    <3>3. CASE Seed(r)
      BY <2>3, <3>100, <3>3 DEF Seed, Goto, AskFits, AfterRead, requestVars
    <3>4. CASE OpenSeeds(r)
      BY <2>3, <3>100, <3>4 DEF OpenSeeds, Goto, AskFits, AfterRead, requestVars
    <3>5. CASE Judge(r)
      BY <2>3, <3>100, <3>5 DEF Judge, Goto, AskFits, AfterRead, requestVars
    <3>6. CASE PasswordBegins(r)
      BY <2>3, <3>100, <3>6 DEF PasswordBegins, Goto, AskFits, AfterRead, requestVars
    <3>7. CASE Verify(r)
      BY <2>3, <3>100, <3>7 DEF Verify, Goto, AskFits, AfterRead, requestVars
    <3>8. CASE UpdateBegins(r)
      BY <2>3, <3>100, <3>8 DEF UpdateBegins, Goto, AskFits, AfterRead, requestVars
    <3>9. CASE WordBegins(r)
      BY <2>3, <3>100, <3>9 DEF WordBegins, Goto, AskFits, AfterRead, requestVars
    <3>10. CASE OpenUsers(r)
      BY <2>3, <3>100, <3>10 DEF OpenUsers, Goto, AskFits, AfterRead, requestVars
    <3>11. CASE FillUsers(r)
      BY <2>3, <3>100, <3>11 DEF FillUsers, Goto, AskFits, AfterRead, requestVars
    <3>12. CASE Logout(r)
      BY <2>3, <3>100, <3>12 DEF Logout, Goto, AskFits, AfterRead, requestVars
    <3>13. CASE Audit(r)
      BY <2>3, <3>100, <3>13 DEF Audit, Goto, AskFits, AfterRead, requestVars
    <3>14. CASE SessionExpired(r)
      BY <2>3, <3>100, <3>14 DEF SessionExpired, Goto, AskFits, AfterRead, requestVars
    <3> QED
      BY <1>2, <2>3, <3>1, <3>2, <3>3, <3>4, <3>5, <3>6, <3>7, <3>8, <3>9, <3>10, <3>11, <3>12, <3>13, <3>14
      DEF AccountMove
  <2> QED
    BY <2>1, <2>2, <2>3
<1>3. FillSeeds(p) => step'[p] = "judge"
  BY <1>1, FillSeedsDoes
<1>4. ASSUME NEW r \in Requests, RegistryMove(r) PROVE step[p] = "sow"
  <2>1. AskFits(req'[p], "sow")
    BY DEF TypeInv, RequestTypes
  <2>2. req'[p].kind = "login"
    BY <2>1 DEF AskFits
  <2> QED
    BY <1>4, <2>2, RegistryMoveIsElsewhere DEF Elsewhere, RegistryKinds, Same
<1>5. CASE Restart
  BY <1>1, <1>5, RestartDoes DEF RestState
<1>6. CASE LockExpires \/ UNCHANGED vars
  BY <1>3, <1>6 DEF LockExpires, vars, requestVars
<1> QED
  BY <1>2, <1>3, <1>4, <1>5, <1>6, NextCases

(* How users.json changes.                                                 *)
LEMMA UsersSteps ==
  ASSUME TypeInv, [Next]_vars
  PROVE  \/ UNCHANGED users
         \/ \E r \in Requests :
              \/ users' = Torn /\ (OpenSeeds(r) \/ OpenUsers(r))
              \/ users' = Seeds /\ FillSeeds(r)
              \/ users' = Changed(r) /\ FillUsers(r)
BY UsersApart DEF OpenSeeds, OpenUsers, FillSeeds, FillUsers

LEMMA FileIsNotAbsent ==
  ASSUME NEW file \in UsersFile
  PROVE  file # Absent /\ file # Torn
BY FilesAssumption DEF UsersFile

LEMMA SeedKept == TypeInv /\ TypeInv' /\ SeedFits /\ [Next]_vars => SeedFits'
<1> SUFFICES ASSUME TypeInv, TypeInv', SeedFits, [Next]_vars PROVE SeedFits'
  OBVIOUS
<1>1. ASSUME NEW r \in Requests, FillUsers(r) PROVE users' \in UsersFile
  BY <1>1, ChangedFits DEF FillUsers
<1>2. ASSUME users' = Absent PROVE Unused'
  <2>1. users = Absent
    BY <1>1, <1>2, UsersSteps, SeedsFit, FileIsNotAbsent, FilesAssumption
  <2>2. ASSUME NEW r \in Requests PROVE ~FillSeeds(r)
    BY <1>2, SeedsFit, FileIsNotAbsent DEF FillSeeds
  <2> QED
    BY <2>1, <2>2, UnusedStays DEF SeedFits
<1>3. ASSUME ~Raced("users")', NEW r \in Requests, step'[r] = "sow"
      PROVE  /\ users' = Torn /\ Unused'
             /\ \A q \in Requests : step'[q] = "sow" => q = r
  <2>1. ~Raced("users") /\ raced' \cap {"users"} = {}
    BY <1>3, StepsApart DEF Raced
  <2>2. ASSUME NEW q \in Requests, OpenSeeds(q) PROVE users = Absent /\ users' = Torn
    BY <2>1, <2>2 DEF OpenSeeds
  <2>3. CASE step[r] = "sow" /\ ~FillSeeds(r)
    <3>1. /\ users = Torn /\ Unused
          /\ \A q \in Requests : step[q] = "sow" => q = r
      BY <2>1, <2>3 DEF SeedFits
    <3>2. \A q \in Requests : ~FillSeeds(q)
      BY <2>3, <3>1 DEF FillSeeds
    <3>3. Unused'
      BY <3>1, <3>2, UnusedStays
    <3>4. \A q \in Requests : ~FillUsers(q)
      <4>1. \A q \in Requests : step[q] = "fill" => req[q].kind \in UserKinds
        BY DEF TypeInv, RequestTypes, AskFits
      <4>2. \A q \in Requests : FillUsers(q) => step[q] = "fill"
        BY DEF FillUsers
      <4> QED
        BY <3>1, <4>1, <4>2 DEF Unused, UserKinds
    <3>5. users' = Torn
      BY <3>1, <3>2, <3>4, UsersSteps
    <3>6. \A q \in Requests : step'[q] = "sow" => q = r
      BY <2>2, <3>1, SowSteps, FilesAssumption
    <3> QED
      BY <3>3, <3>5, <3>6
  <2>4. CASE OpenSeeds(r)
    <3>1. users = Absent /\ users' = Torn /\ Unused
      BY <2>2, <2>4 DEF SeedFits
    <3>2. \A q \in Requests : step[q] # "sow" /\ ~FillSeeds(q)
      BY <2>1, <3>1, FilesAssumption DEF SeedFits, FillSeeds
    <3>3. Unused'
      BY <3>1, <3>2, UnusedStays
    <3>4. \A q \in Requests : step'[q] = "sow" => q = r
      BY <2>4, <3>2 DEF OpenSeeds, Goto, TypeInv, RequestTypes
    <3> QED
      BY <3>1, <3>3, <3>4
  <2> QED
    BY <1>3, <2>3, <2>4, SowSteps
<1> QED
  BY <1>2, <1>3 DEF SeedFits

-----------------------------------------------------------------------------
(* users.json says what it should.                                         *)
LEMMA NotTwoUsersFiles ==
  ASSUME TypeInv, NEW r \in Requests, step[r] \in {"open", "fill"}
  PROVE  seen[r] \in UsersFile /\ seen[r] # Absent /\ seen[r] # Torn
BY FileIsNotAbsent DEF TypeInv, RequestTypes, SeenFits

LEMMA OpenUsersDoes ==
  ASSUME TypeInv, NEW r \in Requests, OpenUsers(r)
  PROVE  /\ step[r] = "open" /\ step'[r] = "fill" /\ users' = Torn
         /\ UNCHANGED <<req, seen, barred, wrote>>
         /\ \A p \in Requests \ {r} : step'[p] = step[p]
         /\ ~Raced("users")' => users = seen[r]
BY DEF OpenUsers, Goto, TypeInv, RequestTypes, Raced

LEMMA FillUsersDoes ==
  ASSUME TypeInv, NEW r \in Requests, FillUsers(r)
  PROVE  /\ step[r] = "fill" /\ step'[r] = "audit" /\ users' = Changed(r)
         /\ UNCHANGED <<req, raced, locks, guesses, overlapped, held>> /\ wrote' = Append(wrote, r)
         /\ \A p \in Requests \ {r} : step'[p] = step[p] /\ seen'[p] = seen[p]
         /\ barred' = IF req[r].field = "enabled"
                         THEN IF req[r].value = "off" THEN barred \cup {req[r].key}
                                                      ELSE barred \ {req[r].key}
                         ELSE barred
         /\ late' = IF req[r].field = "enabled" /\ req[r].value = "on"
                       THEN {q \in late : req[q].key # req[r].key} ELSE late
         /\ req[r].field = "enabled" => req[r].value \in {"on", "off"}
<1>1. req[r] \in Question /\ req[r].kind \in UserKinds /\ AskFits(req[r], "fill")
  BY DEF FillUsers, TypeInv, RequestTypes, AskFits
<1>2. req[r].field = "enabled" => req[r].value \in {"on", "off"}
  BY <1>1 DEF AskFits, UserKinds, Patches
<1>3. /\ step[r] = "fill" /\ step'[r] = "audit" /\ users' = Changed(r)
      /\ UNCHANGED <<req, raced, locks, guesses, overlapped, held>> /\ wrote' = Append(wrote, r)
      /\ \A p \in Requests \ {r} : step'[p] = step[p] /\ seen'[p] = seen[p]
  BY DEF FillUsers, Goto, Took, TypeInv, RequestTypes
<1> QED
  BY <1>2, <1>3 DEF FillUsers

(* Nothing is lost when a change is written.                               *)
LEMMA FillKeepsBars ==
  ASSUME TypeInv, NEW r \in Requests, FillUsers(r), Bars(seen[r])
  PROVE  Bars(users)'
<1>1. /\ users' = Changed(r) /\ step[r] = "fill"
      /\ barred' = IF req[r].field = "enabled"
                     THEN IF req[r].value = "off" THEN barred \cup {req[r].key}
                                                  ELSE barred \ {req[r].key}
                     ELSE barred
  BY FillUsersDoes
<1>2. barred \subseteq Users /\ req[r].key \in Users
  BY <1>1, ChangedFits DEF TypeInv, AccountTypes
<1>3. ASSUME NEW u \in barred' PROVE Changed(r)[u] # None /\ Changed(r)[u].enabled = "off"
  <2>1. CASE u # req[r].key
    BY <1>1, <1>2, <1>3, <2>1, ChangedFits DEF Bars
  <2>2. CASE u = req[r].key /\ req[r].field = "enabled"
    BY <1>1, <1>2, <1>3, <2>2, ChangedFits
  <2>3. CASE u = req[r].key /\ req[r].field # "enabled"
    <3>1. u \in barred /\ seen[r][u] # None /\ seen[r][u].enabled = "off"
      BY <1>1, <1>3, <2>3 DEF Bars
    <3>2. req[r].kind # "create"
      BY <1>1, <2>3, <3>1, ChangedFits
    <3> QED
      BY <1>1, <2>3, <3>1, <3>2, ChangedFits
  <2> QED
    BY <2>1, <2>2, <2>3
<1> QED
  BY <1>1, <1>3 DEF Bars

LEMMA FillKeepsSays ==
  ASSUME TypeInv, WroteFits, [Next]_vars, NEW r \in Requests, FillUsers(r), Says(seen[r])
  PROVE  Says(users)'
<1>1. users' = Changed(r) /\ step[r] = "fill" /\ wrote' = Append(wrote, r) /\ UNCHANGED req
  BY FillUsersDoes
<1>2. ASSUME NEW q \in Requests, Acknowledged(q, "users")'
      PROVE  \/ Superseded(q)'
             \/ Changed(r)[req[q].key] # None /\ Changed(r)[req[q].key][req[q].field] = req[q].value
  <2>1. CASE q = r
    BY <1>1, <2>1, ChangedFits
  <2>2. CASE q # r
    <3>1. Acknowledged(q, "users")
      BY <1>1, <1>2, <2>2, FillUsersDoes DEF Acknowledged, File, UserKinds
    <3>2. req[q] \in Question /\ req[q].key \in Users /\ req[q].kind \in UserKinds
      BY <3>1, FileIs DEF Acknowledged, TypeInv, RequestTypes, AskFits
    <3>3. CASE Superseded(q)
      BY <3>3, SupersededStays
    <3>4. CASE /\ seen[r][req[q].key] # None
               /\ seen[r][req[q].key][req[q].field] = req[q].value
      <4>1. CASE req[q].key # req[r].key
        BY <1>1, <3>2, <3>4, <4>1, ChangedFits
      <4>2. CASE req[q].key = req[r].key /\ req[q].field # req[r].field
        <5>1. req[r].kind # "create"
          BY <1>1, <3>4, <4>2, ChangedFits
        <5>2. req[q].field \in {"enabled", "role", "word"} \ {req[r].field}
          BY <3>2, <4>2 DEF Question
        <5> QED
          BY <1>1, <3>4, <4>2, <5>1, <5>2, ChangedFits
      <4>3. CASE req[q].key = req[r].key /\ req[q].field = req[r].field
        <5>1. File(q) = File(r)
          BY <1>1, <3>2, FileIs DEF TypeInv, RequestTypes, AskFits
        <5>2. Listed(q)
          BY <3>1 DEF WroteFits
        <5> QED
          BY <1>1, <4>3, <5>1, <5>2, LaterSupersedes
      <4> QED
        BY <4>1, <4>2, <4>3
    <3> QED
      BY <3>1, <3>3, <3>4 DEF Says
  <2> QED
    BY <2>1, <2>2
<1> QED
  BY <1>1, <1>2 DEF Says

(* What was acknowledged stays so as long as nothing is written.           *)
LEMMA SaysStays ==
  ASSUME TypeInv, WroteFits, [Next]_vars, NEW file, Says(file),
         NEW q \in Requests, Acknowledged(q, "users")', ~FillUsers(q)
  PROVE  /\ req'[q] = req[q]
         /\ Superseded(q)' \/ (file[req[q].key] # None /\ file[req[q].key][req[q].field] = req[q].value)
<1>1. req'[q] = req[q] /\ Acknowledged(q, "users")
  BY UsersAcknowledged
<1> QED
  BY <1>1, SupersededStays DEF Says

LEMMA UsersKept ==
  TypeInv /\ TypeInv' /\ SeedFits /\ WroteFits /\ UsersFits /\ [Next]_vars => UsersFits'
<1> SUFFICES ASSUME TypeInv, TypeInv', SeedFits, WroteFits, UsersFits, [Next]_vars,
                    ~Raced("users")'
             PROVE  /\ users' \in UsersFile => Bars(users)' /\ Says(users)'
                    /\ \A r \in Requests : step'[r] = "fill" =>
                         /\ users' = Torn /\ Bars(seen[r])' /\ Says(seen[r])'
                         /\ \A q \in Requests : step'[q] = "fill" => q = r
  BY DEF UsersFits
<1>1. ~Raced("users")
  BY StepsApart DEF Raced
<1>2. /\ users \in UsersFile => Bars(users) /\ Says(users)
      /\ \A r \in Requests : step[r] = "fill" =>
           /\ users = Torn /\ Bars(seen[r]) /\ Says(seen[r])
           /\ \A q \in Requests : step[q] = "fill" => q = r
  BY <1>1 DEF UsersFits
<1>3. ASSUME NEW r \in Requests, step'[r] = "fill", UsersQuiet(r)
      PROVE  step[r] = "fill" /\ seen'[r] = seen[r]
  BY <1>3 DEF UsersQuiet, TypeInv, RequestTypes, AskFits
<1>4. CASE (\A p \in Requests : UsersQuiet(p)) /\ UNCHANGED <<users, barred>>
  <2>1. \A q \in Requests : Acknowledged(q, "users")' => ~FillUsers(q)
    BY <1>4 DEF UsersQuiet, Acknowledged, File, FillUsers, UserKinds
  <2>2. users' \in UsersFile => Bars(users)' /\ Says(users)'
    <3>1. ASSUME users \in UsersFile PROVE Says(users)'
      BY <1>2, <1>4, <2>1, <3>1, SaysStays DEF Says
    <3> QED
      BY <1>2, <1>4, <3>1 DEF Bars
  <2>3. ASSUME NEW r \in Requests, step'[r] = "fill"
        PROVE  /\ users' = Torn /\ Bars(seen[r])' /\ Says(seen[r])'
               /\ \A q \in Requests : step'[q] = "fill" => q = r
    <3>1. step[r] = "fill" /\ seen'[r] = seen[r]
      BY <1>3, <1>4, <2>3
    <3>2. Says(seen[r])'
      BY <1>2, <2>1, <3>1, SaysStays DEF Says
    <3> QED
      BY <1>2, <1>3, <1>4, <3>1, <3>2 DEF Bars
  <2> QED
    BY <2>2, <2>3
<1>5. ASSUME NEW s \in Requests, OpenSeeds(s) \/ FillSeeds(s), \A p \in Requests : UsersQuiet(p)
      PROVE  /\ users' \in UsersFile => Bars(users)' /\ Says(users)'
             /\ \A r \in Requests : step'[r] # "fill"
  <2>1. Unused
    <3>1. CASE OpenSeeds(s)
      BY <3>1 DEF OpenSeeds, SeedFits, Raced
    <3>2. CASE FillSeeds(s)
      BY <1>1, <3>2 DEF FillSeeds, SeedFits
    <3> QED
      BY <1>5, <3>1, <3>2
  <2>2. UNCHANGED <<barred, req>>
    BY <1>5 DEF OpenSeeds, FillSeeds, historyVars
  <2>3. \A r \in Requests : req'[r].kind \notin UserKinds
    BY <2>1, <2>2 DEF Unused, UserKinds
  <2>4. \A r \in Requests : step'[r] # "fill" /\ ~Acknowledged(r, "users")'
    BY <2>3 DEF TypeInv, RequestTypes, AskFits, Acknowledged, File, UserKinds
  <2> QED
    BY <2>1, <2>2, <2>4 DEF Bars, Says, Unused
<1>6. ASSUME NEW s \in Requests, OpenUsers(s)
      PROVE  /\ users' \notin UsersFile
             /\ \A r \in Requests : step'[r] = "fill" =>
                  /\ users' = Torn /\ Bars(seen[r])' /\ Says(seen[r])' /\ r = s
  <2>1. /\ users = seen[s] /\ users' = Torn /\ UNCHANGED <<seen, barred>>
        /\ \A p \in Requests \ {s} : step'[p] = step[p]
        /\ users \in UsersFile /\ users # Torn
    BY <1>6, OpenUsersDoes, NotTwoUsersFiles
  <2>2. users' \notin UsersFile
    BY <2>1, FilesAssumption DEF UsersFile
  <2>3. \A r \in Requests : step'[r] = "fill" => r = s
    BY <1>2, <2>1
  <2>4. Bars(seen[s])'
    BY <1>2, <2>1 DEF Bars
  <2>5. \A q \in Requests : ~FillUsers(q)
    BY <1>2, <2>1 DEF FillUsers
  <2>6. Says(seen[s])'
    BY <1>2, <2>1, <2>5, SaysStays DEF Says
  <2> QED
    BY <2>1, <2>2, <2>3, <2>4, <2>6
<1>7. ASSUME NEW s \in Requests, FillUsers(s)
      PROVE  Bars(users)' /\ Says(users)' /\ \A r \in Requests : step'[r] # "fill"
  <2>1. /\ step[s] = "fill" /\ step'[s] = "audit"
        /\ \A p \in Requests \ {s} : step'[p] = step[p]
    BY <1>7, FillUsersDoes
  <2>2. Bars(seen[s]) /\ Says(seen[s]) /\ \A r \in Requests : step[r] = "fill" => r = s
    BY <1>2, <2>1
  <2> QED
    BY <1>7, <2>1, <2>2, FillKeepsBars, FillKeepsSays
<1> QED
  BY <1>4, <1>5, <1>6, <1>7, UsersApart

-----------------------------------------------------------------------------
(* Sessions, and the logins that were barred when they began.              *)
Opens(t) == t \in Requests /\ Judge(t) /\ Enabled(seen[t][req[t].key])

(* What an account's request does to the sessions and to those who are     *)
(* late, and where it stands with the judge.                               *)
LateSteps(p) ==
  /\ sessions'[p] # None => sessions[p] # None \/ Opens(p)
  /\ p \in late' => p \in late \/ (LoginBegins(p) /\ req'[p].key \in barred)
  /\ step'[p] = "judge" /\ ~Raced("users") =>
       \/ step[p] = "judge" /\ seen'[p] = seen[p]
       \/ users \in UsersFile /\ seen'[p] = users
       \/ barred = {}

LEMMA AccountMoveLate ==
  ASSUME TypeInv, SeedFits, NEW r \in Requests, AccountMove(r), NEW p \in Requests
  PROVE  LateSteps(p)
<1>1. RequestTypes /\ AccountTypes
  BY DEF TypeInv
<1>2. CASE FillSeeds(r)
  BY <1>1, <1>2, FillSeedsDoes DEF SeedFits, Unused, historyVars, LateSteps
<1>3. CASE ~FillSeeds(r)
  <2>1. \A q \in Requests \ {r} : Same(q)
    BY <1>1, <1>3, AccountMovesAlone, AloneIsSame
  <2>2. sessions'[p] # None => sessions[p] # None \/ Opens(p)
    <3> USE DEF historyVars, accountVars, requestVars
    <3>100. p \in Tokens /\ sessions \in [Tokens -> Session \cup {None}]
      BY <1>1 DEF AccountTypes, Tokens
    <3>1. CASE LoginBegins(r)
      BY <3>100, <3>1 DEF LoginBegins, Live, Opens
    <3>2. CASE ReadUsers(r)
      BY <3>100, <3>2 DEF ReadUsers, Live, Opens
    <3>3. CASE Seed(r)
      BY <3>100, <3>3 DEF Seed, Live, Opens
    <3>4. CASE OpenSeeds(r)
      BY <3>100, <3>4 DEF OpenSeeds, Live, Opens
    <3>5. CASE Judge(r)
      BY <3>100, <3>5 DEF Judge, Live, Opens
    <3>6. CASE PasswordBegins(r)
      BY <3>100, <3>6 DEF PasswordBegins, Live, Opens
    <3>7. CASE Verify(r)
      BY <3>100, <3>7 DEF Verify, Live, Opens
    <3>8. CASE UpdateBegins(r)
      BY <3>100, <3>8 DEF UpdateBegins, Live, Opens
    <3>9. CASE WordBegins(r)
      BY <3>100, <3>9 DEF WordBegins, Live, Opens
    <3>10. CASE OpenUsers(r)
      BY <3>100, <3>10 DEF OpenUsers, Live, Opens
    <3>11. CASE FillUsers(r)
      BY <3>100, <3>11 DEF FillUsers, Live, Opens
    <3>12. CASE Logout(r)
      BY <3>100, <3>12 DEF Logout, Live, Opens
    <3>13. CASE Audit(r)
      BY <3>100, <3>13 DEF Audit, Live, Opens
    <3>14. CASE SessionExpired(r)
      BY <3>100, <3>14 DEF SessionExpired, Live, Opens
    <3> QED
      BY <1>3, <3>1, <3>2, <3>3, <3>4, <3>5, <3>6, <3>7, <3>8, <3>9, <3>10, <3>11, <3>12, <3>13, <3>14
      DEF AccountMove
  <2>3. p \in late' => p \in late \/ (LoginBegins(p) /\ req'[p].key \in barred)
    <3>1. CASE LoginBegins(r)
      <4>1. PICK u \in Users : /\ Asks(r, "login", u, "word", None, None)
                             /\ late' = IF u \in barred THEN late \cup {r} ELSE late
        BY <3>1 DEF LoginBegins
      <4>2. req'[r].key = u
        BY <1>1, <4>1 DEF Asks, RequestTypes
      <4> QED
        BY <3>1, <4>1, <4>2
    <3>2. CASE FillUsers(r)
      BY <3>2, FillUsersDoes
    <3>3. CASE ~LoginBegins(r) /\ ~FillUsers(r)
      <4> USE DEF historyVars
      <4>1. CASE ReadUsers(r)
        BY <4>1 DEF ReadUsers
      <4>2. CASE Seed(r)
        BY <4>2 DEF Seed
      <4>3. CASE OpenSeeds(r)
        BY <4>3 DEF OpenSeeds
      <4>4. CASE Judge(r)
        BY <4>4 DEF Judge
      <4>5. CASE PasswordBegins(r)
        BY <4>5 DEF PasswordBegins
      <4>6. CASE Verify(r)
        BY <4>6 DEF Verify
      <4>7. CASE UpdateBegins(r)
        BY <4>7 DEF UpdateBegins
      <4>8. CASE WordBegins(r)
        BY <4>8 DEF WordBegins
      <4>9. CASE OpenUsers(r)
        BY <4>9 DEF OpenUsers
      <4>10. CASE Logout(r)
        BY <4>10 DEF Logout
      <4>11. CASE Audit(r)
        BY <4>11 DEF Audit
      <4>12. CASE SessionExpired(r)
        BY <4>12 DEF SessionExpired
      <4> QED
        BY <1>3, <3>3, <4>1, <4>2, <4>3, <4>4, <4>5, <4>6, <4>7, <4>8, <4>9, <4>10, <4>11, <4>12
        DEF AccountMove
    <3> QED
      BY <3>1, <3>2, <3>3
  <2>4. ASSUME step'[p] = "judge"
        PROVE  \/ step[p] = "judge" /\ seen'[p] = seen[p]
               \/ users \in UsersFile /\ seen'[p] = users
    <3>1. CASE p # r
      BY <2>1, <2>4, <3>1 DEF Same
    <3>2. CASE p = r
      <4> USE DEF Goto, Took, AfterRead
      <4>100. DOMAIN step = Requests /\ DOMAIN seen = Requests /\ users \in UsersFile \cup {Absent, Torn}
        BY <1>1 DEF RequestTypes, AccountTypes
      <4>1. CASE LoginBegins(r)
        BY <2>4, <3>2, <4>100, <4>1 DEF LoginBegins, requestVars
      <4>2. CASE ReadUsers(r)
        BY <2>4, <3>2, <4>100, <4>2 DEF ReadUsers, requestVars
      <4>3. CASE Seed(r)
        BY <2>4, <3>2, <4>100, <4>3 DEF Seed, requestVars
      <4>4. CASE OpenSeeds(r)
        BY <2>4, <3>2, <4>100, <4>4 DEF OpenSeeds, requestVars
      <4>5. CASE Judge(r)
        BY <2>4, <3>2, <4>100, <4>5 DEF Judge, requestVars
      <4>6. CASE PasswordBegins(r)
        BY <2>4, <3>2, <4>100, <4>6 DEF PasswordBegins, requestVars
      <4>7. CASE Verify(r)
        BY <2>4, <3>2, <4>100, <4>7 DEF Verify, requestVars
      <4>8. CASE UpdateBegins(r)
        BY <2>4, <3>2, <4>100, <4>8 DEF UpdateBegins, requestVars
      <4>9. CASE WordBegins(r)
        BY <2>4, <3>2, <4>100, <4>9 DEF WordBegins, requestVars
      <4>10. CASE OpenUsers(r)
        BY <2>4, <3>2, <4>100, <4>10 DEF OpenUsers, requestVars
      <4>11. CASE FillUsers(r)
        BY <2>4, <3>2, <4>100, <4>11 DEF FillUsers, requestVars
      <4>12. CASE Logout(r)
        BY <2>4, <3>2, <4>100, <4>12 DEF Logout, requestVars
      <4>13. CASE Audit(r)
        BY <2>4, <3>2, <4>100, <4>13 DEF Audit, requestVars
      <4>14. CASE SessionExpired(r)
        BY <2>4, <3>2, <4>100, <4>14 DEF SessionExpired, requestVars
      <4> QED
        BY <1>3, <4>1, <4>2, <4>3, <4>4, <4>5, <4>6, <4>7, <4>8, <4>9, <4>10, <4>11, <4>12, <4>13, <4>14
        DEF AccountMove
    <3> QED
      BY <3>1, <3>2
  <2> QED
    BY <2>2, <2>3, <2>4 DEF LateSteps
<1> QED
  BY <1>2, <1>3

LEMMA StepsLate ==
  ASSUME TypeInv, TypeInv', SeedFits, [Next]_vars, NEW p \in Requests
  PROVE  LateSteps(p)
<1>1. RequestTypes /\ AccountTypes
  BY DEF TypeInv
<1>2. ASSUME NEW r \in Requests, RegistryMove(r) PROVE LateSteps(p)
  <2>1. Elsewhere(r, RegistryKinds)
    BY <1>2, RegistryMoveIsElsewhere
  <2>2. step'[p] = "judge" => p # r
    BY <2>1 DEF Elsewhere, RegistryKinds, TypeInv, RequestTypes, AskFits
  <2> QED
    BY <2>1, <2>2 DEF Elsewhere, Files, Same, LateSteps
<1>3. CASE Restart
  BY <1>1, <1>3, RestartDoes DEF RestState, LateSteps, Tokens
<1>4. CASE LockExpires \/ UNCHANGED vars
  BY <1>4 DEF LockExpires, vars, accountVars, requestVars, historyVars, LateSteps
<1> QED
  BY <1>2, <1>3, <1>4, AccountMoveLate, NextCases

LEMMA LateKept ==
  TypeInv /\ TypeInv' /\ SeedFits /\ UsersFits /\ LateFits /\ [Next]_vars => LateFits'
<1> SUFFICES ASSUME TypeInv, TypeInv', SeedFits, UsersFits, LateFits, [Next]_vars PROVE LateFits'
  OBVIOUS
<1>1. ASSUME NEW p \in Requests, step'[p] = "idle" PROVE sessions'[p] = None
  <2>1. step[p] = "idle" /\ sessions[p] = None
    BY <1>1, StepsApart DEF LateFits
  <2>2. ~Opens(p)
    BY <2>1 DEF Opens, Judge
  <2> QED
    BY <2>1, <2>2, StepsLate DEF LateSteps
<1>2. ASSUME NEW p \in Requests, LoginBegins(p)
      PROVE  /\ step[p] = "idle" /\ step'[p] \in {"look", "refused"} /\ req'[p].kind = "login"
             /\ barred' = barred
  BY <1>2 DEF LoginBegins, Goto, Asks, TypeInv, RequestTypes
<1>3. ASSUME NEW p \in late'
      PROVE  step'[p] # "idle" /\ req'[p].kind = "login" /\ req'[p].key \in barred'
  <2>1. p \in Requests
    BY <1>3 DEF TypeInv, AccountTypes
  <2>2. CASE p \in late
    <3>1. /\ step'[p] # "idle" /\ req'[p] = req[p]
          /\ req[p].kind = "login" /\ req[p].key \in barred
      BY <2>1, <2>2, StepsApart DEF LateFits
    <3>2. ASSUME NEW s \in Requests, FillUsers(s) PROVE req[p].key \in barred'
      BY <1>3, <3>1, <3>2, FillUsersDoes
    <3>3. (\A s \in Requests : ~FillUsers(s)) => barred' = barred
      BY UsersApart, OpenUsersDoes DEF OpenSeeds, FillSeeds, historyVars
    <3> QED
      BY <3>1, <3>2, <3>3
  <2>3. CASE LoginBegins(p) /\ req'[p].key \in barred
    BY <1>2, <2>1, <2>3
  <2> QED
    BY <1>3, <2>1, <2>2, <2>3, StepsLate DEF LateSteps
<1>4. ASSUME ~Raced("users")', NEW p \in late'
      PROVE  /\ sessions'[p] = None
             /\ step'[p] = "judge" => ~Enabled(seen'[p][req'[p].key])
  <2>1. p \in Requests /\ ~Raced("users")
    BY <1>4, StepsApart DEF TypeInv, AccountTypes, Raced
  <2>2. CASE p \in late
    <3>1. /\ req'[p] = req[p] /\ req[p].key \in barred /\ sessions[p] = None
          /\ step[p] = "judge" => ~Enabled(seen[p][req[p].key])
      BY <2>1, <2>2, StepsApart DEF LateFits
    <3>2. sessions'[p] = None
      BY <2>1, <3>1, StepsLate DEF LateSteps, Opens, Judge
    <3>3. users \in UsersFile => ~Enabled(users[req[p].key])
      BY <2>1, <3>1 DEF UsersFits, Bars, Enabled
    <3>4. step'[p] = "judge" => ~Enabled(seen'[p][req'[p].key])
      BY <2>1, <3>1, <3>3, StepsLate DEF LateSteps
    <3> QED
      BY <3>2, <3>4
  <2>3. CASE LoginBegins(p)
    <3>1. step[p] = "idle" /\ step'[p] # "judge"
      BY <1>2, <2>1, <2>3
    <3> QED
      BY <2>1, <3>1, StepsLate DEF LateSteps, LateFits, Opens, Judge
  <2> QED
    BY <1>4, <2>1, <2>2, <2>3, StepsLate DEF LateSteps
<1>5. ASSUME NEW p \in late', ~Raced("users")'
      PROVE  (step[p] = "judge" => ~Enabled(seen[p][req[p].key]))'
  BY <1>4, <1>5 DEF Enabled
<1> QED
  BY <1>1, <1>3, <1>4, <1>5 DEF LateFits

(* The lock.  Who tries has begun since; what he holds does not change.    *)
LEMMA TryingSteps ==
  ASSUME TypeInv, TypeInv', [Next]_vars, NEW p \in Requests, NEW u \in Users, Trying(p, u)'
  PROVE  \/ Trying(p, u) /\ held'[p] = held[p] /\ ~Judge(p) /\ ~Restart
         \/ LoginBegins(p)
<1>1. RequestTypes /\ AccountTypes
  BY DEF TypeInv
<1>2. step'[p] \in UnderWay /\ req'[p].kind = "login" /\ req'[p].key = u
  BY DEF Trying, UnderWay
<1>7. ~Judge(p) /\ ~Restart
  <2>1. Judge(p) => step'[p] \in {"audit", "refused"}
    BY <1>1 DEF Judge, Goto, RequestTypes
  <2> QED
    BY <1>1, <1>2, <2>1, RestartDoes DEF RestState, UnderWay
<1>3. ASSUME NEW r \in Requests, AccountMove(r)
      PROVE  (Trying(p, u) /\ held'[p] = held[p]) \/ LoginBegins(p)
  <2>1. CASE FillSeeds(r)
    <3>1. held'[p] = held[p] /\ req'[p] = req[p] /\ step[r] = "sow"
      BY <1>1, <2>1, FillSeedsDoes
    <3>2. step[p] \in UnderWay
      BY <1>1, <1>2, <2>1, <3>1, FillSeedsDoes DEF UnderWay
    <3> QED
      BY <1>2, <3>1, <3>2 DEF Trying
  <2>2. CASE ~FillSeeds(r) /\ p # r
    <3>1. Same(p)
      BY <1>1, <1>3, <2>2, AccountMovesAlone, AloneIsSame
    <3> QED
      BY <1>2, <3>1 DEF Trying, Same
  <2>3. CASE ~FillSeeds(r) /\ p = r
    <3> USE DEF Goto, Asks, AskFits, UnderWay, UserKinds
    <3>100. AskFits(req[r], step[r]) /\ DOMAIN step = Requests /\ DOMAIN req = Requests
      BY <1>1 DEF RequestTypes
    <3>102. ~Judge(r)
      BY <1>7, <2>3
    <3>1. CASE LoginBegins(r)
      BY <1>2, <2>3, <3>100, <3>102, <3>1 DEF LoginBegins, requestVars, Trying
    <3>2. CASE ReadUsers(r)
      BY <1>2, <2>3, <3>100, <3>102, <3>2 DEF ReadUsers, requestVars, Trying
    <3>3. CASE Seed(r)
      BY <1>2, <2>3, <3>100, <3>102, <3>3 DEF Seed, requestVars, Trying
    <3>4. CASE OpenSeeds(r)
      BY <1>2, <2>3, <3>100, <3>102, <3>4 DEF OpenSeeds, requestVars, Trying
    <3>5. CASE Judge(r)
      BY <1>2, <2>3, <3>100, <3>102, <3>5 DEF Judge, requestVars, Trying
    <3>6. CASE PasswordBegins(r)
      BY <1>2, <2>3, <3>100, <3>102, <3>6 DEF PasswordBegins, requestVars, Trying
    <3>7. CASE Verify(r)
      BY <1>2, <2>3, <3>100, <3>102, <3>7 DEF Verify, requestVars, Trying
    <3>8. CASE UpdateBegins(r)
      BY <1>2, <2>3, <3>100, <3>102, <3>8 DEF UpdateBegins, requestVars, Trying
    <3>9. CASE WordBegins(r)
      BY <1>2, <2>3, <3>100, <3>102, <3>9 DEF WordBegins, requestVars, Trying
    <3>10. CASE OpenUsers(r)
      BY <1>2, <2>3, <3>100, <3>102, <3>10 DEF OpenUsers, requestVars, Trying
    <3>11. CASE FillUsers(r)
      BY <1>2, <2>3, <3>100, <3>102, <3>11 DEF FillUsers, requestVars, Trying
    <3>12. CASE Logout(r)
      BY <1>2, <2>3, <3>100, <3>102, <3>12 DEF Logout, requestVars, Trying
    <3>13. CASE Audit(r)
      BY <1>2, <2>3, <3>100, <3>102, <3>13 DEF Audit, requestVars, Trying
    <3>14. CASE SessionExpired(r)
      BY <1>2, <2>3, <3>100, <3>102, <3>14 DEF SessionExpired, requestVars, Trying
    <3> QED
      BY <1>3, <2>3, <3>1, <3>2, <3>3, <3>4, <3>5, <3>6, <3>7, <3>8, <3>9, <3>10, <3>11, <3>12, <3>13, <3>14
      DEF AccountMove
  <2> QED
    BY <2>1, <2>2, <2>3
<1>4. ASSUME NEW r \in Requests, RegistryMove(r) PROVE Trying(p, u) /\ held'[p] = held[p]
  BY <1>2, <1>4, RegistryMoveIsElsewhere DEF Elsewhere, RegistryKinds, Same, Trying
<1>6. CASE LockExpires \/ UNCHANGED vars
  BY <1>2, <1>6, <1>7 DEF LockExpires, vars, requestVars, Trying
<1> QED
  BY <1>3, <1>4, <1>6, <1>7, NextCases

LEMMA LockSteps ==
  ASSUME TypeInv, [Next]_vars
  PROVE  \/ UNCHANGED <<locks, guesses, overlapped>> /\ \A r \in Requests : ~LoginBegins(r)
         \/ \E r \in Requests : LoginBegins(r) \/ Judge(r)
         \/ LockExpires \/ Restart
<1>1. ASSUME NEW r \in Requests, LoginBegins(r) PROVE \E q \in Requests : LoginBegins(q)
  BY <1>1
<1>2. ASSUME NEW r \in Requests, AccountMove(r), ~LoginBegins(r), ~Judge(r)
      PROVE  UNCHANGED <<locks, guesses, overlapped>>
  <2> USE DEF historyVars, accountVars
  <2>1. CASE ReadUsers(r)
    BY <2>1 DEF ReadUsers
  <2>2. CASE Seed(r)
    BY <2>2 DEF Seed
  <2>3. CASE OpenSeeds(r)
    BY <2>3 DEF OpenSeeds
  <2>4. CASE PasswordBegins(r)
    BY <2>4 DEF PasswordBegins
  <2>5. CASE Verify(r)
    BY <2>5 DEF Verify
  <2>6. CASE UpdateBegins(r)
    BY <2>6 DEF UpdateBegins
  <2>7. CASE WordBegins(r)
    BY <2>7 DEF WordBegins
  <2>8. CASE OpenUsers(r)
    BY <2>8 DEF OpenUsers
  <2>9. CASE Logout(r)
    BY <2>9 DEF Logout
  <2>10. CASE Audit(r)
    BY <2>10 DEF Audit
  <2>11. CASE SessionExpired(r)
    BY <2>11 DEF SessionExpired
  <2>12. CASE FillSeeds(r)
    BY <2>12, FillSeedsDoes DEF TypeInv
  <2>13. CASE FillUsers(r)
    BY <2>13, FillUsersDoes
  <2> QED
    BY <1>2, <2>1, <2>2, <2>3, <2>4, <2>5, <2>6, <2>7, <2>8, <2>9, <2>10, <2>11, <2>12, <2>13
    DEF AccountMove
<1>3. ASSUME NEW r \in Requests, RegistryMove(r) PROVE UNCHANGED <<locks, guesses, overlapped>>
  BY <1>3, RegistryMoveIsElsewhere DEF Elsewhere, Files
<1>4. UNCHANGED vars => UNCHANGED <<locks, guesses, overlapped>>
  BY DEF vars, accountVars, historyVars
<1> QED
  BY <1>1, <1>2, <1>3, <1>4, NextCases

LEMMA LoginBeginsDoes ==
  ASSUME TypeInv, NEW r \in Requests, LoginBegins(r)
  PROVE  \E u \in Users :
           /\ UNCHANGED <<locks, guesses>>
           /\ req'[r].key = u /\ step'[r] \in {"look", "refused"}
           /\ step'[r] = "look" => ~locks[u].locked
           /\ held'[r] = locks[u].fails
           /\ overlapped \subseteq overlapped'
           /\ \A q \in Requests : Trying(q, u) => u \in overlapped'
           /\ \A q \in Requests \ {r} : ~LoginBegins(q)
<1>1. RequestTypes
  BY DEF TypeInv
<1>2. PICK u \in Users :
        /\ Asks(r, "login", u, "word", None, None)
        /\ IF LockedOut(u) THEN Goto(r, "refused") ELSE Goto(r, "look")
        /\ held' = [held EXCEPT ![r] = locks[u].fails]
        /\ overlapped' =
             IF \E q \in Requests : step[q] \in UnderWay /\ req[q].kind = "login" /\ req[q].key = u
               THEN overlapped \cup {u} ELSE overlapped
        /\ UNCHANGED <<locks, guesses>>
  BY DEF LoginBegins, accountVars
<1>3. /\ req'[r].key = u /\ step'[r] \in {"look", "refused"}
      /\ step'[r] = "look" => ~locks[u].locked
      /\ held'[r] = locks[u].fails
  BY <1>1, <1>2 DEF RequestTypes, Asks, Goto, LockedOut
<1>4. \A q \in Requests : Trying(q, u) => u \in overlapped'
  BY <1>2 DEF Trying
<1>5. ASSUME NEW q \in Requests \ {r} PROVE ~LoginBegins(q)
  <2>1. step'[q] = step[q]
    BY <1>1, <1>2 DEF RequestTypes, Goto
  <2>2. LoginBegins(q) => step[q] = "idle" /\ step'[q] \in {"look", "refused"}
    BY <1>1 DEF LoginBegins, RequestTypes, Goto
  <2> QED
    BY <2>1, <2>2
<1> QED
  BY <1>2, <1>3, <1>4, <1>5

LockCounts(u) ==
  IF locks[u].locked THEN guesses[u] = MaxFails /\ locks[u].fails = 0
                     ELSE guesses[u] < MaxFails /\ guesses[u] = locks[u].fails

LEMMA LockKept == TypeInv /\ TypeInv' /\ LockFits /\ [Next]_vars => LockFits'
<1> SUFFICES ASSUME TypeInv, TypeInv', LockFits, [Next]_vars,
                    NEW u \in Users, u \notin overlapped'
             PROVE  /\ LockCounts(u)'
                    /\ \A r \in Requests : Trying(r, u)' =>
                         /\ ~locks'[u].locked /\ held'[r] = locks'[u].fails
                         /\ \A q \in Requests : Trying(q, u)' => q = r
  BY DEF LockFits, LockCounts
<1>1. /\ locks \in [Users -> Lock] /\ guesses \in [Users -> Nat] /\ MaxFails \in Nat \ {0}
  BY AccountsAssumption DEF TypeInv, AccountTypes
<1>2. ASSUME u \notin overlapped
      PROVE  /\ LockCounts(u)
             /\ \A r \in Requests : Trying(r, u) =>
                  /\ ~locks[u].locked /\ held[r] = locks[u].fails
                  /\ \A q \in Requests : Trying(q, u) => q = r
  BY <1>2 DEF LockFits, LockCounts
<1>3. CASE UNCHANGED <<locks, guesses, overlapped>> /\ \A r \in Requests : ~LoginBegins(r)
  <2>1. LockCounts(u)'
    BY <1>2, <1>3 DEF LockCounts
  <2>2. \A r \in Requests : Trying(r, u)' => Trying(r, u) /\ held'[r] = held[r]
    BY <1>3, TryingSteps
  <2> QED
    BY <1>2, <1>3, <2>1, <2>2
<1>4. ASSUME NEW r \in Requests, LoginBegins(r)
      PROVE  /\ LockCounts(u)'
             /\ \A p \in Requests : Trying(p, u)' =>
                  /\ ~locks'[u].locked /\ held'[p] = locks'[u].fails
                  /\ \A q \in Requests : Trying(q, u)' => q = p
  <2>1. PICK v \in Users :
           /\ UNCHANGED <<locks, guesses>>
           /\ req'[r].key = v /\ step'[r] \in {"look", "refused"}
           /\ step'[r] = "look" => ~locks[v].locked
           /\ held'[r] = locks[v].fails
           /\ overlapped \subseteq overlapped'
           /\ \A q \in Requests : Trying(q, v) => v \in overlapped'
           /\ \A q \in Requests \ {r} : ~LoginBegins(q)
    BY <1>4, LoginBeginsDoes
  <2>2. LockCounts(u)'
    BY <1>2, <2>1 DEF LockCounts
  <2>3. \A p \in Requests \ {r} : Trying(p, u)' => Trying(p, u) /\ held'[p] = held[p]
    BY <2>1, TryingSteps
  <2>4. Trying(r, u)' => v = u /\ step'[r] = "look"
    BY <2>1 DEF Trying, UnderWay
  <2>5. Trying(r, u)' => \A q \in Requests \ {r} : ~Trying(q, u)'
    BY <2>1, <2>3, <2>4
  <2>6. ASSUME NEW p \in Requests, Trying(p, u)'
        PROVE  /\ ~locks'[u].locked /\ held'[p] = locks'[u].fails
               /\ \A q \in Requests : Trying(q, u)' => q = p
    <3>1. CASE p = r
      BY <2>1, <2>4, <2>5, <2>6, <3>1
    <3>2. CASE p # r
      BY <1>2, <2>1, <2>3, <2>5, <2>6, <3>2
    <3> QED
      BY <3>1, <3>2
  <2> QED
    BY <2>2, <2>6
<1>5. ASSUME NEW r \in Requests, Judge(r)
      PROVE  /\ LockCounts(u)'
             /\ \A p \in Requests : Trying(p, u)' =>
                  /\ ~locks'[u].locked /\ held'[p] = locks'[u].fails
                  /\ \A q \in Requests : Trying(q, u)' => q = p
  <2>1. /\ step[r] = "judge" /\ step'[r] \in {"audit", "refused"} /\ UNCHANGED overlapped
        /\ \/ /\ locks' = [locks EXCEPT ![req[r].key] = NoLock]
              /\ guesses' = [guesses EXCEPT ![req[r].key] = 0]
           \/ /\ locks' = [locks EXCEPT ![req[r].key] = AfterFail(held[r] + 1)]
              /\ guesses' = [guesses EXCEPT ![req[r].key] = @ + 1]
    BY <1>5 DEF Judge, Goto, TypeInv, RequestTypes
  <2>2. req[r].kind = "login"
    BY <2>1 DEF TypeInv, RequestTypes, AskFits
  <2>3. \A p \in Requests : Trying(p, u)' => Trying(p, u) /\ held'[p] = held[p] /\ p # r
    <3>1. ASSUME NEW p \in Requests PROVE ~LoginBegins(p)
      <4>1. LoginBegins(p) => step[p] = "idle" /\ step'[p] \in {"look", "refused"}
        BY LoginBeginsDoes DEF LoginBegins
      <4>2. p # r => step'[p] = step[p]
        BY <1>5 DEF Judge, Goto, TypeInv, RequestTypes
      <4> QED
        BY <2>1, <4>1, <4>2
    <3> QED
      BY <1>5, <3>1, TryingSteps
  <2>4. CASE req[r].key # u
    BY <1>1, <1>2, <2>1, <2>3, <2>4 DEF LockCounts
  <2>5. CASE req[r].key = u
    <3>1. Trying(r, u)
      BY <2>1, <2>2, <2>5 DEF Trying, UnderWay
    <3>2. \A p \in Requests : ~Trying(p, u)'
      BY <1>2, <2>1, <2>3, <3>1
    <3>3. ~locks[u].locked /\ held[r] = locks[u].fails /\ guesses[u] = held[r] /\ held[r] < MaxFails
      BY <1>2, <2>1, <3>1 DEF LockCounts
    <3>4. \/ locks'[u] = NoLock /\ guesses'[u] = 0
          \/ locks'[u] = AfterFail(held[r] + 1) /\ guesses'[u] = held[r] + 1
      BY <1>1, <2>1, <2>5, <3>3
    <3>5. held[r] \in Nat
      BY DEF TypeInv, RequestTypes
    <3>6. LockCounts(u)'
      BY <1>1, <3>3, <3>4, <3>5 DEF LockCounts, NoLock, AfterFail
    <3> QED
      BY <3>2, <3>6
  <2> QED
    BY <2>4, <2>5
<1>6. CASE LockExpires
  <2>1. PICK v \in Users : /\ locks[v].locked
                         /\ locks' = [locks EXCEPT ![v] = NoLock]
                         /\ guesses' = [guesses EXCEPT ![v] = 0]
    BY <1>6 DEF LockExpires
  <2>2. UNCHANGED <<step, req, held, overlapped>>
    BY <1>6 DEF LockExpires, requestVars
  <2>3. \A p \in Requests : Trying(p, u)' <=> Trying(p, u)
    BY <2>2 DEF Trying
  <2>4. CASE u = v
    <3>1. locks'[u] = NoLock /\ guesses'[u] = 0
      BY <1>1, <2>1, <2>4
    <3>2. LockCounts(u)'
      BY <1>1, <3>1 DEF LockCounts, NoLock
    <3> QED
      BY <1>2, <2>1, <2>2, <2>3, <2>4, <3>2
  <2>5. CASE u # v
    <3>1. locks'[u] = locks[u] /\ guesses'[u] = guesses[u]
      BY <1>1, <2>1, <2>5
    <3>2. LockCounts(u)'
      BY <1>2, <2>2, <3>1 DEF LockCounts
    <3> QED
      BY <1>2, <2>2, <2>3, <3>1, <3>2
  <2> QED
    BY <2>4, <2>5
<1>7. CASE Restart
  <2>1. locks' = [w \in Users |-> NoLock] /\ guesses' = [w \in Users |-> 0]
    BY <1>7 DEF Restart
  <2>2. LockCounts(u)'
    BY <1>1, <2>1 DEF LockCounts, NoLock
  <2>3. \A p \in Requests : Trying(p, u)' => step'[p] = RestState(step[p])
    BY <1>7, RestartDoes DEF TypeInv
  <2>4. \A p \in Requests : ~Trying(p, u)'
    BY <2>3 DEF RestState, Trying, UnderWay
  <2> QED
    BY <2>2, <2>4
<1> QED
  BY <1>3, <1>4, <1>5, <1>6, <1>7, LockSteps

-----------------------------------------------------------------------------
(* The cases.                                                              *)
CaseQuiet(p) ==
  req'[p].kind \in CaseKinds /\ step'[p] \in {"mkdir", "manifest", "save", "audit", "told"} =>
    /\ req'[p] = req[p]
    /\ IF step'[p] \in {"audit", "told"} THEN step[p] \in {"audit", "told"}
                                        ELSE step'[p] = step[p] /\ seen'[p] = seen[p]

LEMMA CalmCaseIsQuiet ==
  ASSUME NEW p, Calm(p, CaseKinds)
  PROVE  CaseQuiet(p)
BY DEF Calm, CaseQuiet, Same

(* A request that does not move keeps what it has, unless it is taken.     *)
LEMMA CaseFrame ==
  ASSUME TypeInv, NEW p \in Requests, CaseQuiet(p), PlacedFits(p), ArchiveFits(p),
         id'[p] = id[p], dirs \subseteq dirs', archived \subseteq archived',
         \A i \in Ids : manifest'[i] = manifest[i]
  PROVE  PlacedFits(p)' /\ ArchiveFits(p)' /\ (Placed(p)' => Placed(p))
<1>1. req[p].kind = "archive" => req[p].key \in Ids
  BY DEF TypeInv, RequestTypes, AskFits
<1>2. Placed(p)' =>
        /\ Placed(p) /\ req'[p] = req[p]
        /\ step'[p] \in {"mkdir", "manifest"} => step'[p] = step[p]
        /\ step'[p] \in {"audit", "told"} => step[p] \in {"audit", "told"}
  BY DEF CaseQuiet, Placed, CaseKinds
<1>3. PlacedFits(p)'
  BY <1>2 DEF PlacedFits, Placed
<1>4. ArchiveFits(p)'
  BY <1>1 DEF ArchiveFits, CaseQuiet, CaseKinds
<1> QED
  BY <1>2, <1>3, <1>4

LEMMA CaseKept == TypeInv /\ TypeInv' /\ CaseFits /\ [Next]_vars => CaseFits'
<1> SUFFICES ASSUME TypeInv, TypeInv', CaseFits, [Next]_vars, ~Raced("cases")'
             PROVE  /\ \A i \in Ids : manifest'[i] # None => i \in dirs'
                    /\ \A p \in Requests : PlacedFits(p)' /\ ArchiveFits(p)'
                    /\ \A p, q \in Requests : Placed(p)' /\ Placed(q)' /\ id'[q] = id'[p] => q = p
  BY DEF CaseFits
<1> DEFINE Kept ==
      /\ \A i \in Ids : manifest'[i] # None => i \in dirs'
      /\ \A p \in Requests : PlacedFits(p)' /\ ArchiveFits(p)'
      /\ \A p, q \in Requests : Placed(p)' /\ Placed(q)' /\ id'[q] = id'[p] => q = p
<1>1. ~Raced("cases")
  BY StepsApart DEF Raced
<1>2. /\ \A i \in Ids : manifest[i] # None => i \in dirs
      /\ \A p \in Requests : PlacedFits(p) /\ ArchiveFits(p)
      /\ \A p, q \in Requests : Placed(p) /\ Placed(q) /\ id[q] = id[p] => q = p
  BY <1>1 DEF CaseFits
<1>3. ASSUME \A p \in Requests : CaseQuiet(p), UNCHANGED caseVars PROVE Kept
  <2>1. UNCHANGED <<dirs, manifest, archived, id>>
    BY <1>3 DEF caseVars
  <2>2. \A p \in Requests : PlacedFits(p)' /\ ArchiveFits(p)' /\ (Placed(p)' => Placed(p))
    BY <1>2, <1>3, <2>1, CaseFrame
  <2> QED
    BY <1>2, <2>1, <2>2
<1>4. ASSUME NEW r \in Requests, CaseMove(r) PROVE Kept
  <2>1. \A p \in Requests \ {r} : Same(p) /\ CaseQuiet(p)
    BY <1>4, CaseMoveIsElsewhere DEF Elsewhere, Same, CaseQuiet
  <2>100. /\ req[r] \in Question /\ AskFits(req[r], step[r]) /\ SeenFits(req[r], step[r], seen[r])
          /\ DOMAIN step = Requests /\ DOMAIN req = Requests /\ DOMAIN seen = Requests
          /\ id \in [Requests -> Ids \cup {None}] /\ dirs \subseteq Ids
          /\ manifest \in [Ids -> Requests \cup {None}]
    BY DEF TypeInv, RegistryTypes, RequestTypes
  <2>2. CASE CaseBegins(r) \/ ArchiveBegins(r)
    <3>1. CaseQuiet(r) /\ UNCHANGED caseVars
      BY <2>2, <2>100 DEF CaseBegins, ArchiveBegins, Begins, Goto, CaseQuiet, registryVars
    <3> QED
      BY <1>3, <2>1, <3>1
  <2>3. CASE Turn(r)
    <3>1. /\ UNCHANGED <<dirs, manifest, archived, id>> /\ req'[r] = req[r]
          /\ step[r] = "turn" /\ seen'[r] = manifest[req[r].key]
          /\ step'[r] = IF manifest[req[r].key] # None THEN "save" ELSE "refused"
      BY <2>3, <2>100 DEF Turn, Proceed, Goto, Took, registryVars, caseVars
    <3>2. req[r].kind = "archive" /\ ~Placed(r)'
      BY <2>100, <3>1 DEF AskFits, Placed
    <3>3. \A p \in Requests \ {r} : PlacedFits(p)' /\ ArchiveFits(p)' /\ (Placed(p)' => Placed(p))
      BY <1>2, <2>1, <3>1, CaseFrame
    <3>4. PlacedFits(r)' /\ ArchiveFits(r)'
      BY <3>1, <3>2 DEF PlacedFits, ArchiveFits
    <3> QED
      BY <1>2, <3>1, <3>2, <3>3, <3>4
  <2>4. CASE AllocateId(r)
    <3>1. PICK i \in FreeId :
            /\ id' = [id EXCEPT ![r] = i]
            /\ Race("cases", \E q \in Requests : step[q] = "mkdir" /\ id[q] = i)
      BY <2>4 DEF AllocateId
    <3>2. i \in Ids /\ i \notin dirs
      BY DEF FreeId, Ids, Range
    <3>3. \A q \in Requests : ~(step[q] = "mkdir" /\ id[q] = i)
      BY <3>1 DEF Race, Raced
    <3>4. /\ UNCHANGED <<dirs, manifest, archived>> /\ req'[r] = req[r]
          /\ step[r] = "list" /\ step'[r] = "mkdir"
          /\ id'[r] = i /\ \A p \in Requests \ {r} : id'[p] = id[p]
      BY <2>4, <2>100, <3>1 DEF AllocateId, Proceed, Goto
    <3>5. req[r].kind = "case"
      BY <2>100, <3>4 DEF AskFits
    <3>6. \A p \in Requests \ {r} : PlacedFits(p)' /\ ArchiveFits(p)' /\ (Placed(p)' => Placed(p))
      BY <1>2, <2>1, <3>4, CaseFrame
    <3>7. PlacedFits(r)' /\ ArchiveFits(r)'
      BY <1>2, <3>2, <3>4, <3>5 DEF PlacedFits, ArchiveFits
    <3>8. \A p \in Requests \ {r} : Placed(p) => id[p] # i
      BY <1>2, <3>2, <3>3 DEF PlacedFits
    <3> QED
      BY <1>2, <3>4, <3>6, <3>7, <3>8
  <2>5. CASE MakeDirs(r)
    <3>1. /\ UNCHANGED <<manifest, archived, id>> /\ req'[r] = req[r]
          /\ step[r] = "mkdir" /\ step'[r] = "manifest" /\ dirs' = dirs \cup {id[r]}
      BY <2>5, <2>100 DEF MakeDirs, Proceed, Goto
    <3>2. req[r].kind = "case" /\ Placed(r)
      BY <2>100, <3>1 DEF AskFits, Placed
    <3>3. \A p \in Requests \ {r} : PlacedFits(p)' /\ ArchiveFits(p)' /\ (Placed(p)' => Placed(p))
      BY <1>2, <2>1, <3>1, CaseFrame
    <3>4. PlacedFits(r)' /\ ArchiveFits(r)'
      BY <1>2, <3>1, <3>2 DEF PlacedFits, ArchiveFits
    <3> QED
      BY <1>2, <3>1, <3>2, <3>3, <3>4
  <2>6. CASE WriteManifest(r)
    <3>1. /\ UNCHANGED <<dirs, id>> /\ req'[r] = req[r]
          /\ step[r] = "manifest" /\ step'[r] = "audit"
          /\ manifest' = [manifest EXCEPT ![id[r]] = r] /\ archived' = archived \ {id[r]}
      BY <2>6, <2>100 DEF WriteManifest, Proceed, Goto
    <3>2. req[r].kind = "case" /\ Placed(r)
      BY <2>100, <3>1 DEF AskFits, Placed
    <3>3. id[r] \in Ids /\ id[r] \in dirs /\ manifest[id[r]] = None
      BY <1>2, <3>1, <3>2 DEF PlacedFits
    <3>4. manifest'[id[r]] = r /\ \A i \in Ids \ {id[r]} : manifest'[i] = manifest[i]
      BY <2>100, <3>1, <3>3
    <3>5. ASSUME NEW p \in Requests \ {r}
          PROVE  PlacedFits(p)' /\ ArchiveFits(p)' /\ (Placed(p)' => Placed(p))
      <4>1. /\ step'[p] = step[p] /\ req'[p] = req[p] /\ seen'[p] = seen[p] /\ id'[p] = id[p]
        BY <2>1, <3>1 DEF Same
      <4>2. Placed(p) => id[p] # id[r]
        BY <1>2, <3>2
      <4>3. req[p].kind = "archive" => req[p].key \in Ids
        BY DEF TypeInv, RequestTypes, AskFits
      <4>4. PlacedFits(p) /\ ArchiveFits(p)
        BY <1>2
      <4>5. PlacedFits(p)'
        BY <3>1, <3>4, <4>1, <4>2, <4>4 DEF PlacedFits, Placed
      <4>6. ArchiveFits(p)'
        BY <3>1, <3>3, <3>4, <4>1, <4>3, <4>4 DEF ArchiveFits
      <4> QED
        BY <4>1, <4>5, <4>6 DEF Placed
    <3>6. PlacedFits(r)' /\ ArchiveFits(r)'
      BY <3>1, <3>2, <3>3, <3>4 DEF PlacedFits, ArchiveFits
    <3>7. \A i \in Ids : manifest'[i] # None => i \in dirs'
      BY <1>2, <3>1, <3>3, <3>4
    <3> QED
      BY <1>2, <3>1, <3>2, <3>5, <3>6, <3>7
  <2>7. CASE SaveManifest(r)
    <3>1. /\ UNCHANGED <<dirs, id>> /\ req'[r] = req[r]
          /\ step[r] = "save" /\ step'[r] = "audit"
          /\ manifest' = [manifest EXCEPT ![req[r].key] = seen[r]]
          /\ archived' = archived \cup {req[r].key}
      BY <2>7, <2>100 DEF SaveManifest, Proceed, Goto
    <3>2. req[r].kind = "archive" /\ req[r].key \in Ids
      BY <2>100, <3>1 DEF AskFits
    <3>3. manifest[req[r].key] # None /\ seen[r] = manifest[req[r].key]
      BY <1>2, <3>1, <3>2 DEF ArchiveFits
    <3>4. \A i \in Ids : manifest'[i] = manifest[i]
      BY <2>100, <3>1, <3>2, <3>3
    <3>5. \A p \in Requests \ {r} : PlacedFits(p)' /\ ArchiveFits(p)' /\ (Placed(p)' => Placed(p))
      BY <1>2, <2>1, <3>1, <3>4, CaseFrame
    <3>6. PlacedFits(r)' /\ ArchiveFits(r)' /\ ~Placed(r)'
      BY <3>1, <3>2, <3>3, <3>4 DEF PlacedFits, ArchiveFits, Placed
    <3> QED
      BY <1>2, <3>1, <3>4, <3>5, <3>6
  <2> QED
    BY <1>4, <2>2, <2>3, <2>4, <2>5, <2>6, <2>7 DEF CaseMove
<1> QED
  BY <1>3, <1>4, StepsApart, CalmCaseIsQuiet DEF LeftAlone

-----------------------------------------------------------------------------
(* The prompts.                                                            *)
PromptQuiet(p) ==
  req'[p].kind = "prompt" /\ step'[p] \in {"empty", "body", "audit", "told"} =>
    /\ req'[p] = req[p]
    /\ IF step'[p] \in {"audit", "told"} THEN step[p] \in {"audit", "told"}
                                        ELSE step'[p] = step[p] /\ seen'[p] = seen[p]

LEMMA CalmPromptIsQuiet ==
  ASSUME NEW p, Calm(p, {"prompt"})
  PROVE  PromptQuiet(p)
BY DEF Calm, PromptQuiet, Same

LEMMA PromptFrame ==
  ASSUME TypeInv', NEW p \in Requests, PromptQuiet(p), VersionFits(p),
         versions \subseteq versions', body' = body
  PROVE  VersionFits(p)' /\ (step'[p] = "body" => step[p] = "body")
<1>1. step'[p] \in {"empty", "body"} => req'[p].kind = "prompt"
  BY DEF TypeInv, RequestTypes, AskFits
<1> QED
  BY <1>1 DEF VersionFits, PromptQuiet

LEMMA PromptKept == TypeInv /\ TypeInv' /\ PromptFits /\ [Next]_vars => PromptFits'
<1> DEFINE Kept ==
      /\ \A p \in Requests : VersionFits(p)'
      /\ \A p, q \in Requests : step'[p] = "body" /\ step'[q] = "body" => q = p
<1> SUFFICES ASSUME TypeInv, TypeInv', PromptFits, [Next]_vars, ~Raced("prompts")' PROVE Kept
  BY DEF PromptFits
<1>1. ~Raced("prompts")
  BY StepsApart DEF Raced
<1>2. /\ \A p \in Requests : VersionFits(p)
      /\ \A p, q \in Requests : step[p] = "body" /\ step[q] = "body" => q = p
  BY <1>1 DEF PromptFits
<1>3. ASSUME \A p \in Requests : PromptQuiet(p), UNCHANGED promptVars PROVE Kept
  <2>1. UNCHANGED <<body, versions>>
    BY <1>3 DEF promptVars
  <2>2. \A p \in Requests : VersionFits(p)' /\ (step'[p] = "body" => step[p] = "body")
    BY <1>2, <1>3, <2>1, PromptFrame
  <2> QED
    BY <1>2, <2>2
<1>4. ASSUME NEW r \in Requests, PromptMove(r) PROVE Kept
  <2>1. \A p \in Requests \ {r} : Same(p) /\ PromptQuiet(p)
    BY <1>4, PromptMoveIsElsewhere DEF Elsewhere, Same, PromptQuiet
  <2>100. /\ AskFits(req[r], step[r])
          /\ DOMAIN step = Requests /\ DOMAIN req = Requests /\ DOMAIN seen = Requests
    BY DEF TypeInv, RequestTypes
  <2>2. CASE PromptBegins(r) \/ ReadPrevious(r)
    <3>1. PromptQuiet(r) /\ UNCHANGED promptVars
      BY <2>2, <2>100 DEF PromptBegins, ReadPrevious, Begins, Proceed, Goto, PromptQuiet, registryVars
    <3> QED
      BY <1>3, <2>1, <3>1
  <2>3. CASE KeepVersion(r)
    <3>1. /\ step[r] = "keep" /\ step'[r] = "empty" /\ versions' = versions \cup {seen[r]}
          /\ seen'[r] = seen[r] /\ body' = body
      BY <2>3, <2>100 DEF KeepVersion, Proceed, Goto
    <3>2. \A p \in Requests \ {r} : VersionFits(p)' /\ (step'[p] = "body" => step[p] = "body")
      BY <1>2, <2>1, <3>1, PromptFrame
    <3>3. VersionFits(r)' /\ step'[r] # "body"
      BY <3>1 DEF VersionFits
    <3> QED
      BY <1>2, <3>2, <3>3
  <2>4. CASE EmptyPrompt(r)
    <3>1. /\ step[r] = "empty" /\ step'[r] = "body" /\ versions' = versions /\ body' = Torn
          /\ body = seen[r] /\ \A q \in Requests : step[q] # "body"
      BY <2>4, <2>100 DEF EmptyPrompt, Proceed, Goto, Race, Raced
    <3>2. body \in versions
      BY <1>2, <3>1 DEF VersionFits
    <3>3. ASSUME NEW p \in Requests \ {r} PROVE VersionFits(p)' /\ step'[p] # "body"
      BY <1>2, <2>1, <3>1, <3>2, <3>3 DEF VersionFits, Same
    <3>4. VersionFits(r)'
      BY <3>1 DEF VersionFits
    <3> QED
      BY <3>3, <3>4
  <2>5. CASE WriteBody(r)
    <3>1. /\ step[r] = "body" /\ step'[r] = "audit" /\ versions' = versions /\ body' = r
      BY <2>5, <2>100 DEF WriteBody, Proceed, Goto
    <3>2. body = Torn /\ \A q \in Requests : step[q] = "body" => q = r
      BY <1>2, <3>1 DEF VersionFits
    <3>3. ASSUME NEW p \in Requests \ {r} PROVE VersionFits(p)' /\ step'[p] # "body"
      BY <1>2, <2>1, <3>1, <3>2, <3>3, RegistriesAssumption DEF VersionFits, Same
    <3>4. VersionFits(r)' /\ step'[r] # "body"
      BY <3>1 DEF VersionFits
    <3> QED
      BY <3>3, <3>4
  <2> QED
    BY <1>4, <2>2, <2>3, <2>4, <2>5 DEF PromptMove
<1> QED
  BY <1>3, <1>4, StepsApart, CalmPromptIsQuiet DEF LeftAlone

(* The skills.                                                             *)
SkillQuiet(p) == step'[p] = "switch" => step[p] = "switch" /\ seen'[p] = seen[p]

LEMMA CalmSkillIsQuiet ==
  ASSUME TypeInv', NEW p \in Requests, Calm(p, {"skill"})
  PROVE  SkillQuiet(p)
<1>1. step'[p] = "switch" => req'[p].kind = "skill"
  BY DEF TypeInv, RequestTypes, AskFits
<1> QED
  BY <1>1 DEF Calm, SkillQuiet, Same

LEMMA SwitchesStay ==
  ASSUME TypeInv, WroteFits, [Next]_vars, NEW file, Switches(file),
         NEW q \in Requests, Acknowledged(q, "skills")', ~WriteOverrides(q)
  PROVE  req'[q] = req[q] /\ (Superseded(q)' \/ file[req[q].key] = req[q].value)
<1>1. req'[q] = req[q] /\ Acknowledged(q, "skills")
  BY SkillsAcknowledged
<1> QED
  BY <1>1, SupersededStays DEF Switches

LEMMA SkillKept == TypeInv /\ TypeInv' /\ WroteFits /\ SkillFits /\ [Next]_vars => SkillFits'
<1> DEFINE Kept ==
      /\ overrides' # Torn => Switches(overrides)'
      /\ \A p \in Requests : step'[p] = "switch" =>
           /\ overrides' = Torn /\ Switches(seen[p])'
           /\ \A q \in Requests : step'[q] = "switch" => q = p
<1> SUFFICES ASSUME TypeInv, TypeInv', WroteFits, SkillFits, [Next]_vars, ~Raced("skills")'
             PROVE  Kept
  BY DEF SkillFits
<1>1. ~Raced("skills")
  BY StepsApart DEF Raced
<1>2. /\ overrides # Torn => Switches(overrides)
      /\ \A p \in Requests : step[p] = "switch" =>
           /\ overrides = Torn /\ Switches(seen[p])
           /\ \A q \in Requests : step[q] = "switch" => q = p
  BY <1>1 DEF SkillFits
<1>3. ASSUME \A p \in Requests : SkillQuiet(p) /\ ~WriteOverrides(p), UNCHANGED overrides
      PROVE  Kept
  <2>1. overrides' # Torn => Switches(overrides)'
    BY <1>2, <1>3, SwitchesStay DEF Switches
  <2>2. ASSUME NEW p \in Requests, step'[p] = "switch"
        PROVE  /\ overrides' = Torn /\ Switches(seen[p])'
               /\ \A q \in Requests : step'[q] = "switch" => q = p
    <3>1. step[p] = "switch" /\ seen'[p] = seen[p]
      BY <1>3, <2>2 DEF SkillQuiet
    <3>2. Switches(seen[p])'
      BY <1>2, <1>3, <3>1, SwitchesStay DEF Switches
    <3> QED
      BY <1>2, <1>3, <3>1, <3>2 DEF SkillQuiet
  <2> QED
    BY <2>1, <2>2
<1>4. ASSUME NEW r \in Requests, SkillMove(r) PROVE Kept
  <2>1. /\ \A p \in Requests \ {r} : Same(p) /\ SkillQuiet(p)
    BY <1>4, SkillMoveIsElsewhere DEF Elsewhere, Same, SkillQuiet
  <2>100. /\ AskFits(req[r], step[r]) /\ SeenFits(req[r], step[r], seen[r])
          /\ DOMAIN step = Requests /\ DOMAIN req = Requests /\ DOMAIN seen = Requests
    BY DEF TypeInv, RequestTypes
  <2>2. CASE SkillBegins(r) \/ ReadOverrides(r)
    <3>1. step'[r] \notin {"switch", "audit"} /\ UNCHANGED overrides
      BY <2>2, <2>100 DEF SkillBegins, ReadOverrides, Begins, Proceed, Goto, registryVars
    <3>2. ASSUME NEW p \in Requests PROVE SkillQuiet(p) /\ ~WriteOverrides(p)
      BY <2>1, <2>100, <3>1 DEF SkillQuiet, WriteOverrides, Proceed, Goto, Same
    <3> QED
      BY <1>3, <3>1, <3>2
  <2>3. CASE EmptyOverrides(r)
    <3>1. /\ step[r] = "shut" /\ step'[r] = "switch" /\ overrides' = Torn
          /\ seen'[r] = seen[r] /\ overrides = seen[r]
      BY <2>3, <2>100 DEF EmptyOverrides, Proceed, Goto, Race, Raced
    <3>2. overrides # Torn
      BY <2>100, <3>1, RegistriesAssumption DEF SeenFits, Overrides
    <3>3. \A p \in Requests : ~WriteOverrides(p)
      BY <2>1, <2>100, <3>1 DEF WriteOverrides, Proceed, Goto, Same
    <3>4. Switches(seen[r])'
      BY <1>2, <3>1, <3>2, <3>3, SwitchesStay DEF Switches
    <3>5. \A p \in Requests : step'[p] = "switch" => p = r
      BY <1>2, <2>1, <3>2 DEF Same
    <3> QED
      BY <3>1, <3>4, <3>5
  <2>4. CASE WriteOverrides(r)
    <3>1. /\ step[r] = "switch" /\ step'[r] = "audit" /\ req'[r] = req[r]
          /\ wrote' = Append(wrote, r)
          /\ overrides' = [seen[r] EXCEPT ![req[r].key] = req[r].value]
      BY <2>4, <2>100 DEF WriteOverrides, Proceed, Goto, Wrote
    <3>2. /\ Switches(seen[r]) /\ \A p \in Requests : step[p] = "switch" => p = r
          /\ req[r].kind = "skill" /\ req[r].key \in Skills /\ seen[r] \in Overrides
      BY <1>2, <2>100, <3>1 DEF AskFits, SeenFits
    <3>3. overrides'[req[r].key] = req[r].value
          /\ \A s \in Skills \ {req[r].key} : overrides'[s] = seen[r][s]
      BY <3>1, <3>2 DEF Overrides
    <3>4. ASSUME NEW q \in Requests, Acknowledged(q, "skills")'
          PROVE  req'[q] = req[q] /\ (Superseded(q)' \/ overrides'[req[q].key] = req[q].value)
      <4>1. CASE q = r
        BY <3>1, <3>3, <4>1
      <4>2. CASE q # r
        <5>1. /\ Acknowledged(q, "skills") /\ req'[q] = req[q] /\ req[q] \in Question
              /\ req[q].kind = "skill" /\ req[q].key \in Skills
          <6>1. step'[q] = step[q] /\ req'[q] = req[q]
            BY <2>1, <4>2 DEF Same
          <6>2. Acknowledged(q, "skills")
            BY <3>4, <6>1 DEF Acknowledged, File
          <6> QED
            BY <6>1, <6>2, FileIs DEF Acknowledged, TypeInv, RequestTypes, AskFits
        <5>2. CASE Superseded(q)
          BY <5>1, <5>2, SupersededStays
        <5>3. CASE req[q].key # req[r].key /\ seen[r][req[q].key] = req[q].value
          BY <3>3, <5>1, <5>3
        <5>4. CASE req[q].key = req[r].key
          <6>1. req[q].field = "word" /\ req[r].field = "word"
            BY <3>2, <5>1 DEF TypeInv, RequestTypes, AskFits
          <6>2. File(q) = File(r) /\ Listed(q)
            BY <3>2, <5>1, FileIs DEF WroteFits
          <6> QED
            BY <3>1, <5>1, <5>4, <6>1, <6>2, LaterSupersedes
        <5> QED
          BY <3>2, <5>1, <5>2, <5>3, <5>4 DEF Switches
      <4> QED
        BY <4>1, <4>2
    <3>5. Switches(overrides)'
      BY <3>4 DEF Switches
    <3>6. \A p \in Requests : step'[p] # "switch"
      BY <2>1, <3>1, <3>2 DEF Same
    <3> QED
      BY <3>5, <3>6
  <2> QED
    BY <1>4, <2>2, <2>3, <2>4 DEF SkillMove
<1>5. ASSUME \A p \in Requests : Calm(p, {"skill"})
      PROVE  \A p \in Requests : SkillQuiet(p) /\ ~WriteOverrides(p)
  <2>1. ASSUME NEW p \in Requests PROVE ~WriteOverrides(p)
    <3>1. WriteOverrides(p) => step[p] = "switch" /\ step'[p] = "audit" /\ req'[p] = req[p]
      BY DEF WriteOverrides, Proceed, Goto, TypeInv, RequestTypes
    <3>2. step[p] = "switch" => req[p].kind = "skill"
      BY DEF TypeInv, RequestTypes, AskFits
    <3> QED
      BY <1>5, <3>1, <3>2 DEF Calm, Same
  <2> QED
    BY <1>5, <2>1, CalmSkillIsQuiet
<1> QED
  BY <1>3, <1>4, <1>5, StepsApart DEF LeftAlone

-----------------------------------------------------------------------------
(* The invariant holds in the beginning and is kept.                       *)
LEMMA InitInv == Init => IInv
<1> SUFFICES ASSUME Init PROVE IInv
  OBVIOUS
<1>1. TypeInv
  BY InitTypes
<1>2. /\ \A r \in Requests : /\ step[r] = "idle" /\ req[r].kind = "none"
      /\ barred = {} /\ late = {} /\ wrote = <<>> /\ overlapped = {}
      /\ seeding = None
  BY DEF Init, AccountsInit
<1>3. SeedFits
  <2>1. users = Absent => sessions = [t \in Tokens |-> None]
    <3> DEFINE admin == [enabled |-> "on", role |-> "admin", word |-> First, must |-> FALSE]
               file == [u \in Users |-> IF u = Admin THEN admin ELSE NewAccount(First)]
    <3>1. file \in [Users -> Account \cup {None}]
      BY DEF NewAccount, Account, Switch
    <3>2. file # Absent
      <4> HIDE DEF file
      <4> QED
        BY <3>1, FilesAssumption
    <3> QED
      BY <3>2 DEF Init, AccountsInit
  <2> QED
    BY <1>2, <2>1 DEF SeedFits, Unused
<1>4. WroteFits
  BY <1>2 DEF WroteFits, Acknowledged
<1>5. UsersFits
  BY <1>2 DEF UsersFits, Bars, Says, Acknowledged
<1>6. LateFits
  <2>1. \A r \in Requests : sessions[r] = None
    BY AccountsAssumption DEF Init, AccountsInit, Tokens
  <2> QED
    BY <1>2, <2>1 DEF LateFits
<1>7. LockFits
  <2>1. \A u \in Users : ~locks[u].locked /\ locks[u].fails = 0 /\ guesses[u] = 0
    BY DEF Init, AccountsInit, NoLock
  <2> QED
    BY <1>2, <2>1, AccountsAssumption DEF LockFits, Trying, UnderWay
<1>8. CaseFits
  <2>1. \A i \in Ids : manifest[i] = None
    BY DEF Init
  <2> QED
    BY <1>2, <2>1 DEF CaseFits, PlacedFits, Placed, ArchiveFits
<1>9. PromptFits
  BY <1>2 DEF PromptFits, VersionFits
<1>10. SkillFits
  BY <1>2 DEF SkillFits, Switches, Acknowledged
<1> QED
  BY <1>1, <1>3, <1>4, <1>5, <1>6, <1>7, <1>8, <1>9, <1>10 DEF IInv

LEMMA StepKeepsInv == IInv /\ [Next]_vars => IInv'
<1> SUFFICES ASSUME IInv, [Next]_vars PROVE IInv'
  OBVIOUS
<1>1. /\ TypeInv /\ SeedFits /\ WroteFits /\ UsersFits /\ LateFits
      /\ LockFits /\ CaseFits /\ PromptFits /\ SkillFits
  BY DEF IInv
<1>2. TypeInv'
  BY <1>1, TypesKept
<1>3. SeedFits' /\ WroteFits' /\ UsersFits' /\ LateFits'
  BY <1>1, <1>2, SeedKept, WroteKept, UsersKept, LateKept
<1>4. LockFits' /\ CaseFits' /\ PromptFits' /\ SkillFits'
  BY <1>1, <1>2, LockKept, CaseKept, PromptKept, SkillKept
<1> QED
  BY <1>2, <1>3, <1>4 DEF IInv

(* Every variable keeps its type, and a request is only ever at a step of  *)
(* its own handler, with what that step needs read: the file it will write *)
(* back is a file somebody wrote, never one found empty.                   *)
THEOREM TypeCorrect == Spec => []TypeInv
<1>1. IInv => TypeInv
  BY DEF IInv
<1> QED
  BY <1>1, InitInv, StepKeepsInv, PTL DEF Spec

(* MAX_FAILS of AuthService: an account that is tried by one login after   *)
(* the other is locked by its MaxFails-th wrong word and by none before,   *)
(* and no further word is judged while it is.  The count in memory is that *)
(* of the words judged.                                                    *)
THEOREM LockoutStands == Spec => []LockoutHolds
<1>1. IInv => LockoutHolds
  <2> SUFFICES ASSUME IInv, NEW u \in Users \ overlapped
               PROVE  guesses[u] <= MaxFails /\ (guesses[u] = MaxFails => locks[u].locked)
    BY DEF LockoutHolds
  <2>1. guesses[u] \in Nat /\ MaxFails \in Nat
    BY AccountsAssumption DEF IInv, TypeInv, AccountTypes
  <2>2. CASE locks[u].locked
    BY <2>1, <2>2 DEF IInv, LockFits
  <2>3. CASE ~locks[u].locked
    BY <2>1, <2>3 DEF IInv, LockFits
  <2> QED
    BY <2>2, <2>3
<1> QED
  BY <1>1, InitInv, StepKeepsInv, PTL DEF Spec

(* AuthService.login reads the account after it has been asked: a login    *)
(* that begins when the account is disabled opens no session, unless two   *)
(* requests have changed users.json at once.                               *)
THEOREM DisabledStayOut == Spec => []DisabledIsOut
<1>1. IInv => DisabledIsOut
  BY DEF IInv, LateFits, Raced, DisabledIsOut
<1> QED
  BY <1>1, InitInv, StepKeepsInv, PTL DEF Spec

(* What a client was told has been done is found in its registry, as long  *)
(* as no two requests have changed that registry at once: the other three  *)
(* may have been raced, and the server may have stopped anywhere.          *)
THEOREM AcknowledgedStays == Spec => []AcknowledgedIsThere
<1>1. IInv => AcknowledgedIsThere
  <2> SUFFICES ASSUME IInv PROVE AcknowledgedIsThere
    OBVIOUS
  <2> USE DEF IInv
  <2>1. ASSUME NEW r \in Requests, step[r] = "told", File(r) \notin raced, File(r) = "users"
        PROVE  users = Torn \/ Superseded(r) \/ users[req[r].key][req[r].field] = req[r].value
    <3>1. ~Raced("users") /\ Acknowledged(r, "users")
      BY <2>1 DEF Raced, Acknowledged
    <3>2. users # Absent
      BY <2>1, FileIs DEF SeedFits, Unused, UserKinds
    <3>3. users \in UsersFile => Says(users)
      BY <3>1 DEF UsersFits
    <3> QED
      BY <3>1, <3>2, <3>3 DEF Says, TypeInv, AccountTypes
  <2>2. ASSUME NEW r \in Requests, step[r] = "told", File(r) \notin raced,
               req[r].kind \in {"case", "archive"}
        PROVE  /\ req[r].kind = "case" => manifest[id[r]] = r
               /\ req[r].kind = "archive" => req[r].key \in archived
    <3>1. ~Raced("cases")
      BY <2>2 DEF Raced, File
    <3> QED
      BY <2>2, <3>1 DEF CaseFits, PlacedFits, Placed, ArchiveFits
  <2>3. ASSUME NEW r \in Requests, step[r] = "told", File(r) \notin raced, req[r].kind = "prompt"
        PROVE  body = r \/ r \in versions
    <3>1. ~Raced("prompts")
      BY <2>3 DEF Raced, File
    <3> QED
      BY <2>3, <3>1 DEF PromptFits, VersionFits
  <2>4. ASSUME NEW r \in Requests, step[r] = "told", File(r) \notin raced, File(r) = "skills"
        PROVE  overrides = Torn \/ Superseded(r) \/ overrides[req[r].key] = req[r].value
    BY <2>4 DEF SkillFits, Switches, Acknowledged, Raced
  <2>5. ASSUME NEW r \in Requests
        PROVE  /\ File(r) = "prompts" <=> req[r].kind = "prompt"
               /\ File(r) \in {"users", "skills"} => req[r].kind \notin {"case", "archive"}
    BY DEF File
  <2>6. ASSUME NEW r \in Requests, step[r] = "told", File(r) \notin raced
        PROVE  CASE File(r) = "users" ->
                      \/ users = Torn \/ Superseded(r)
                      \/ users[req[r].key][req[r].field] = req[r].value
                 [] req[r].kind = "case" -> manifest[id[r]] = r
                 [] req[r].kind = "archive" -> req[r].key \in archived
                 [] File(r) = "prompts" -> body = r \/ r \in versions
                 [] File(r) = "skills" ->
                      \/ overrides = Torn \/ Superseded(r)
                      \/ overrides[req[r].key] = req[r].value
                 [] OTHER -> TRUE
    BY <2>1, <2>2, <2>3, <2>4, <2>5, <2>6
  <2> QED
    BY <2>6 DEF AcknowledgedIsThere
<1> QED
  BY <1>1, InitInv, StepKeepsInv, PTL DEF Spec

=============================================================================

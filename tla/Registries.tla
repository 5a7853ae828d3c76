----------------------------- MODULE Registries -----------------------------
(***************************************************************************)
(* What the server keeps besides the accounts, each in a file of its own:  *)
(* the manifests of the cases (CaseService), the managed prompts with      *)
(* their earlier versions (PromptStore) and the skills that are switched   *)
(* off (AdminService).  Requests to all of them, and to the accounts, are  *)
(* under way at once.                                                      *)
(***************************************************************************)
EXTENDS Accounts, Functions

CONSTANTS
  Names,       \* the ids a name can give, in the order they are tried; their
               \* number bounds the cases
  Skills, DefaultBody

ASSUME RegistriesAssumption == Torn \notin Requests /\ Torn \notin [Skills -> Switch]

VARIABLES
  dirs,       \* the cases that have a directory, by the number in their id
  manifest,   \* the request that wrote the manifest of a case
  archived,   \* the cases whose manifest says so
  id,         \* the id a creation has allocated
  body,       \* the prompt, by the request that wrote it
  versions,   \* its earlier bodies
  overrides   \* skills.json

caseVars == <<dirs, manifest, archived, id>>
promptVars == <<body, versions>>
registryVars == <<caseVars, promptVars, overrides>>
vars == <<accountVars, requestVars, historyVars, registryVars>>

Ids == Range(Names)

(* A step that leaves the accounts and all but the request's stage alone.  *)
Proceed(r, from, to) ==
  /\ step[r] = from
  /\ Goto(r, to)
  /\ UNCHANGED <<accountVars, req, held, guesses, overlapped, barred, late>>

Race(file, conflict) == raced' = IF conflict THEN raced \cup {file} ELSE raced
Wrote(r) == wrote' = Append(wrote, r)

Begins(r, kind, key, value, first) ==
  /\ Asks(r, kind, key, "word", value, None)
  /\ step[r] = "idle"
  /\ Goto(r, first)
  /\ UNCHANGED <<accountVars, seen, held, historyVars>>

-----------------------------------------------------------------------------
(* create: an id that no directory has, the directories, the manifest.     *)
(* The cases of a behaviour have one name.  A mutant does not look.        *)
CaseBegins(r) ==
  /\ \E t \in Tokens : Admitted(t)
  /\ \E first \in {"list", "refused"} : Begins(r, "case", None, None, first)
  /\ UNCHANGED registryVars

FirstId == {Names[1]}
FreeId ==
  {Names[n] : n \in {m \in DOMAIN Names :
     Names[m] \notin dirs /\ \A k \in 1..(m - 1) : Names[k] \in dirs}}

AllocateId(r) ==
  /\ Proceed(r, "list", "mkdir")
  /\ \E i \in FreeId :
       /\ id' = [id EXCEPT ![r] = i]
       /\ Race("cases", \E q \in Requests : step[q] = "mkdir" /\ id[q] = i)
  /\ UNCHANGED <<seen, wrote, dirs, manifest, archived, promptVars, overrides>>

MakeDirs(r) ==
  /\ Proceed(r, "mkdir", "manifest")
  /\ dirs' = dirs \cup {id[r]}
  /\ UNCHANGED <<seen, raced, wrote, manifest, archived, id, promptVars, overrides>>

WriteManifest(r) ==
  /\ Proceed(r, "manifest", "audit")
  /\ manifest' = [manifest EXCEPT ![id[r]] = r]
  /\ archived' = archived \ {id[r]}
  /\ Wrote(r)
  /\ UNCHANGED <<seen, raced, dirs, id, promptVars, overrides>>

(* update: the changes of a manifest take turns, its creation does not.    *)
(* The owner or an administrator may; whether he does is not told here.    *)
ArchiveBegins(r) ==
  /\ \E t \in Tokens : Admitted(t)
  /\ \E i \in Ids : Begins(r, "archive", i, None, "turn")
  /\ UNCHANGED registryVars

Turn(r) ==
  LET i == req[r].key
      found == manifest[i] # None
  IN
  /\ ~\E q \in Requests : step[q] = "save" /\ req[q].key = i
  /\ Proceed(r, "turn", IF found THEN "save" ELSE "refused")
  /\ Took(r, manifest[i])
  /\ UNCHANGED <<raced, wrote, registryVars>>

SaveManifest(r) ==
  LET i == req[r].key
  IN
  /\ Proceed(r, "save", "audit")
  /\ manifest' = [manifest EXCEPT ![i] = seen[r]]
  /\ archived' = archived \cup {i}
  /\ Wrote(r) /\ Took(r, None)
  /\ UNCHANGED <<raced, dirs, id, promptVars, overrides>>

-----------------------------------------------------------------------------
(* PromptStore.update: the body that is there is kept as a version, under  *)
(* a name of its own, before it is replaced.                               *)
PromptBegins(r) ==
  /\ \E t \in Tokens : Governs(t)
  /\ Begins(r, "prompt", None, None, "previous")
  /\ UNCHANGED registryVars

ReadPrevious(r) ==
  /\ Proceed(r, "previous", "keep")
  /\ Took(r, body)
  /\ UNCHANGED <<raced, wrote, registryVars>>

KeepVersion(r) ==
  /\ Proceed(r, "keep", "empty")
  /\ versions' = versions \cup {seen[r]}
  /\ UNCHANGED <<seen, raced, wrote, caseVars, body, overrides>>

EmptyPrompt(r) ==
  /\ Proceed(r, "empty", "body")
  /\ body' = Torn
  /\ Race("prompts", body # seen[r] \/ \E q \in Requests : step[q] = "body")
  /\ UNCHANGED <<seen, wrote, caseVars, versions, overrides>>

WriteBody(r) ==
  /\ Proceed(r, "body", "audit")
  /\ body' = r
  /\ Wrote(r) /\ Took(r, None)
  /\ UNCHANGED <<raced, caseVars, versions, overrides>>

-----------------------------------------------------------------------------
(* setSkillEnabled: skills.json is read, changed and written back.         *)
SkillBegins(r) ==
  /\ \E t \in Tokens : Governs(t)
  /\ \E s \in Skills, enabled \in Switch : Begins(r, "skill", s, enabled, "overrides")
  /\ UNCHANGED registryVars

ReadOverrides(r) ==
  /\ Proceed(r, "overrides", IF overrides = Torn THEN "failed" ELSE "shut")
  /\ Took(r, overrides)
  /\ UNCHANGED <<raced, wrote, registryVars>>

EmptyOverrides(r) ==
  /\ Proceed(r, "shut", "switch")
  /\ overrides' = Torn
  /\ Race("skills", overrides # seen[r])
  /\ UNCHANGED <<seen, wrote, caseVars, promptVars>>

WriteOverrides(r) ==
  /\ Proceed(r, "switch", "audit")
  /\ overrides' = [seen[r] EXCEPT ![req[r].key] = req[r].value]
  /\ Wrote(r) /\ Took(r, None)
  /\ UNCHANGED <<raced, caseVars, promptVars>>

-----------------------------------------------------------------------------
Init ==
  /\ AccountsInit
  /\ dirs = {} /\ manifest = [i \in Ids |-> None] /\ archived = {}
  /\ id = [r \in Requests |-> None]
  /\ body = DefaultBody /\ versions = {}
  /\ overrides = [s \in Skills |-> "on"]

Next ==
  \/ AccountStep /\ UNCHANGED registryVars
  \/ Restart /\ UNCHANGED registryVars
  \/ \E r \in Requests :
       \/ CaseBegins(r) \/ AllocateId(r) \/ MakeDirs(r) \/ WriteManifest(r)
       \/ ArchiveBegins(r) \/ Turn(r) \/ SaveManifest(r)
       \/ PromptBegins(r) \/ ReadPrevious(r) \/ KeepVersion(r) \/ EmptyPrompt(r) \/ WriteBody(r)
       \/ SkillBegins(r) \/ ReadOverrides(r) \/ EmptyOverrides(r) \/ WriteOverrides(r)

Spec == Init /\ [][Next]_vars

-----------------------------------------------------------------------------
(* The registry a request changes.                                         *)
File(r) ==
  CASE req[r].kind \in {"password", "update", "create", "reset"} -> "users"
    [] req[r].kind \in {"case", "archive"} -> "cases"
    [] req[r].kind = "prompt" -> "prompts"
    [] req[r].kind = "skill" -> "skills"
    [] OTHER -> "none"

(* A later request has changed the same.                                   *)
Superseded(r) ==
  \E i, j \in DOMAIN wrote :
    /\ i < j /\ wrote[i] = r /\ File(wrote[j]) = File(r)
    /\ req[wrote[j]].key = req[r].key /\ req[wrote[j]].field = req[r].field

(* What a client was told has been done can be found: the account has the  *)
(* field, the case its owner and its state, the skill its switch; and a    *)
(* prompt is the current one or one of the versions, whoever replaced it   *)
(* and wherever the server stopped.  Exceptions are a registry two         *)
(* requests have changed at once, and a file a restart has left torn.      *)
AcknowledgedIsThere ==
  \A r \in Requests :
    (step[r] = "told" /\ File(r) \notin raced) =>
      CASE File(r) = "users" ->
             users = Torn \/ Superseded(r) \/ users[req[r].key][req[r].field] = req[r].value
        [] req[r].kind = "case" -> manifest[id[r]] = r
        [] req[r].kind = "archive" -> req[r].key \in archived
        [] File(r) = "prompts" -> body = r \/ r \in versions
        [] File(r) = "skills" ->
             overrides = Torn \/ Superseded(r) \/ overrides[req[r].key] = req[r].value
        [] OTHER -> TRUE

=============================================================================

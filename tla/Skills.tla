------------------------------- MODULE Skills -------------------------------
(***************************************************************************)
(* Skills of one workspace: drafts are created, authored, forked, repaired,*)
(* validated and published, and projects pin published versions            *)
(* (services.py); POST /v1/projects is protected by an idempotency key     *)
(* (main.py and application/idempotency.py).                               *)
(*                                                                         *)
(* Every request runs on a thread of the API: it reads, then commits what  *)
(* it has made of that.  The database is READ COMMITTED.                   *)
(***************************************************************************)
EXTENDS Naturals, FiniteSets

CONSTANTS
    Nothing,        \* no slug, no package, no project
    Ids,            \* identifiers new_id("sk") may return
    Starter,        \* the skill of no workspace that seed_local publishes
    Slugs,          \* slugs, the -draft and -fork ones included
    Packages,       \* description and content of a version
    Sound,          \* the packages that pass validation
    Seeded,         \* the package of the starter skill
    MaxVersions,    \* bound: versions of a skill
    MaxPins,        \* bound: versions a project pins; 50 in schemas.py
    Projects,       \* identifiers new_id("prj") may return
    Keys,           \* idempotency keys of project creations
    Threads         \* threads of the API

VARIABLES
    skill,          \* rows of skills: identifier -> slug
    version,        \* rows of skill_versions
    project,        \* project -> the versions its configuration pins
    record,         \* idempotency_records: key -> the project of the response
    answers,        \* key -> the projects clients have been answered
    thread          \* thread -> the request it handles and what it has read

catalogue == <<skill, version>>
creation == <<project, record, answers>>
vars == <<catalogue, creation, thread>>

Own == Ids \X (1..MaxVersions)

Versions == Own \union {<<Starter, 1>>}

ASSUME SkillsAssumption ==
    /\ Nothing \notin Slugs \union Packages \union Projects
    /\ Starter \notin Ids
    /\ Seeded \in Sound /\ Sound \subseteq Packages
    /\ MaxVersions \in Nat \ {0}
    /\ MaxPins \in Nat

\* approval_pending, which publish_skill accepts too, is a status no code sets.
Status == {"absent", "draft", "valid", "invalid", "published"}

\* noted: package_json says which model wrote the draft.
Version == [status : Status, package : Packages \union {Nothing}, noted : BOOLEAN]

Thread ==
    [pc : {"idle"}]
    \union [pc : {"create"}, slug : Slugs, package : Packages, authored : BOOLEAN]
    \union [pc : {"note"}, at : Own]
    \union [pc : {"repair"}, at : Own, package : Packages, from : 1..MaxVersions]
    \union [pc : {"publish"}, at : Own]
    \union [pc : {"validate"}, at : Own, seen : Status]
    \union [pc : {"pin"}, key : Keys, pins : SUBSET Versions]
    \union [pc : {"answer"}, key : Keys, project : Projects]

\* Rows, and what threads have read, have their types.
TypeOK ==
    /\ skill \in [Ids -> Slugs \union {Nothing}]
    /\ version \in [Versions -> Version]
    /\ project \in [Projects -> [made : BOOLEAN, pins : SUBSET Versions]]
    /\ record \in [Keys -> Projects \union {Nothing}]
    /\ answers \in [Keys -> SUBSET Projects]
    /\ thread \in [Threads -> Thread]

NoVersion == [status |-> "absent", package |-> Nothing, noted |-> FALSE]

Idle == [pc |-> "idle"]

Init ==
    /\ skill = [k \in Ids |-> Nothing]
    /\ version = [v \in Versions |-> IF v \in Own THEN NoVersion
                    ELSE [status |-> "published", package |-> Seeded, noted |-> FALSE]]
    /\ project = [j \in Projects |-> [made |-> FALSE, pins |-> {}]]
    /\ record = [i \in Keys |-> Nothing]
    /\ answers = [i \in Keys |-> {}]
    /\ thread = [t \in Threads |-> Idle]

Present(v) == version[v].status # "absent"

Draft(package) == [status |-> "draft", package |-> package, noted |-> FALSE]

\* Thread t, which was at pc, goes on with the request as next.
Goes(t, pc, next) ==
    /\ thread[t].pc = pc
    /\ thread' = [thread EXCEPT ![t] = next]

\* A request is refused, fails or dies with its process.
Abandoned(t) ==
    /\ thread[t].pc # "idle"
    /\ thread' = [thread EXCEPT ![t] = Idle]
    /\ UNCHANGED <<catalogue, creation>>

-----------------------------------------------------------------------------
(* Drafts *)

Free(slug) == \A k \in Ids : skill[k] # slug

\* create_skill, for a client or for author_skill_draft, finds no such slug.
CreateReads(t, slug, package, authored) ==
    /\ Free(slug)
    /\ Goes(t, "idle", [pc |-> "create", slug |-> slug, package |-> package,
                        authored |-> authored])
    /\ UNCHANGED <<catalogue, creation>>

\* fork_skill copies the newest published version of a skill.
ForkReads(t, v, slug) ==
    /\ version[v].status = "published"
    /\ \A w \in Versions : w[1] = v[1] /\ version[w].status = "published" => w[2] <= v[2]
    /\ Free(slug)
    /\ Goes(t, "idle",
            [pc |-> "create", slug |-> slug, package |-> version[v].package,
             authored |-> FALSE])
    /\ UNCHANGED <<catalogue, creation>>

\* No constraint keeps a slug unique.
Creates(t, k) ==
    /\ skill[k] = Nothing
    /\ Goes(t, "create",
            IF thread[t].authored THEN [pc |-> "note", at |-> <<k, 1>>] ELSE Idle)
    /\ skill' = [skill EXCEPT ![k] = thread[t].slug]
    /\ version' = [version EXCEPT ![<<k, 1>>] = Draft(thread[t].package)]
    /\ UNCHANGED creation

\* author_skill_draft commits once more, to note in package_json which model
\* wrote the draft, whatever has become of the version since.
Notes(t) ==
    /\ Goes(t, "note", Idle)
    /\ version' = [version EXCEPT ![thread[t].at].noted = TRUE]
    /\ UNCHANGED <<skill, creation>>

\* n follows the newest committed version of skill k.
NextNumber(k, n) ==
    /\ \A m \in n..MaxVersions : ~Present(<<k, m>>)
    /\ n > 1 => Present(<<k, n - 1>>)

\* Any version of the workspace that is not published may be repaired, more than once.
RepairReads(t, v, n, package) ==
    /\ version[v].status \notin {"absent", "published"}
    /\ NextNumber(v[1], n)
    /\ Goes(t, "idle", [pc |-> "repair", at |-> <<v[1], n>>, package |-> package,
                        from |-> v[2]])
    /\ UNCHANGED <<catalogue, creation>>

\* A fault: the repair changes the version it started from.
RepairsInPlace(t) ==
    /\ Goes(t, "repair", Idle)
    /\ version' = [version EXCEPT
            ![<<thread[t].at[1], thread[t].from>>].package = thread[t].package]
    /\ UNCHANGED <<skill, creation>>

\* uq_skill_version lets one of two repairs with the same number in.
Repairs(t) ==
    /\ Goes(t, "repair", Idle)
    /\ ~Present(thread[t].at)
    /\ version' = [version EXCEPT ![thread[t].at] = Draft(thread[t].package)]
    /\ UNCHANGED <<skill, creation>>

-----------------------------------------------------------------------------
(* Publication *)

ValidateReads(t, v) ==
    /\ Present(v)
    /\ Goes(t, "idle", [pc |-> "validate", at |-> v, seen |-> version[v].status])
    /\ UNCHANGED <<catalogue, creation>>

Verdict(v) == IF version[v].package \in Sound THEN "valid" ELSE "invalid"

\* The verdict replaces any status, published too; it is written only if it
\* is not the status that was read.
Validates(t, v) ==
    /\ Goes(t, "validate", Idle)
    /\ v = thread[t].at
    /\ version' = IF thread[t].seen = Verdict(v) THEN version
                  ELSE [version EXCEPT ![v].status = Verdict(v)]
    /\ UNCHANGED <<skill, creation>>

PublishReads(t, v) ==
    /\ version[v].status = "valid"
    /\ Goes(t, "idle", [pc |-> "publish", at |-> v])
    /\ UNCHANGED <<catalogue, creation>>

Publishes(t) ==
    /\ Goes(t, "publish", Idle)
    /\ version' = [version EXCEPT ![thread[t].at].status = "published"]
    /\ UNCHANGED <<skill, creation>>

-----------------------------------------------------------------------------
(* Projects *)

\* A key that has a record is answered with its response.
CreationReplayed(t, i) ==
    /\ thread[t].pc = "idle"
    /\ record[i] # Nothing
    /\ answers' = [answers EXCEPT ![i] = @ \union {record[i]}]
    /\ UNCHANGED <<catalogue, project, record, thread>>

\* create_project reads that every version it is to pin is published.
Pins(t, i, pins) ==
    /\ record[i] = Nothing
    /\ \A v \in pins : version[v].status = "published"
    /\ Goes(t, "idle", [pc |-> "pin", key |-> i, pins |-> pins])
    /\ UNCHANGED <<catalogue, creation>>

\* It commits the project; the key is not recorded yet.
ProjectCreated(t, j) ==
    /\ ~project[j].made
    /\ Goes(t, "pin", [pc |-> "answer", key |-> thread[t].key, project |-> j])
    /\ project' = [project EXCEPT ![j] = [made |-> TRUE, pins |-> thread[t].pins]]
    /\ UNCHANGED <<catalogue, record, answers>>

Answers(i, j) ==
    /\ record' = [record EXCEPT ![i] = j]
    /\ answers' = [answers EXCEPT ![i] = @ \union {j}]

\* A fault: the response is remembered without looking for the other one.
RemembersAnyway(t, i) ==
    /\ Goes(t, "answer", Idle)
    /\ i = thread[t].key
    /\ Answers(i, thread[t].project)
    /\ UNCHANGED <<catalogue, project>>

\* remember_idempotency looks for the key again: a response that another
\* request recorded meanwhile is given instead of the request's own.  A record
\* committed even later makes the commit fail.
Remembers(t, i) ==
    /\ Goes(t, "answer", Idle)
    /\ i = thread[t].key
    /\ Answers(i, IF record[i] = Nothing THEN thread[t].project ELSE record[i])
    /\ UNCHANGED <<catalogue, project>>

-----------------------------------------------------------------------------
\* A client, or the model that author_skill_draft asks, writes a package.
Writing(t) ==
    \E slug \in Slugs, package \in Packages, authored \in BOOLEAN :
        CreateReads(t, slug, package, authored)

\* The key of a fork or a repair saves its response; whether the request is
\* repeated is up to the client.
Forking(t) == \E v \in Versions, slug \in Slugs : ForkReads(t, v, slug)

Repairing(t) ==
    \E v \in Own, n \in 1..MaxVersions, package \in Packages :
        RepairReads(t, v, n, package)

DraftNext(t) ==
    \/ Writing(t) \/ Forking(t) \/ Repairing(t)
    \/ \E k \in Ids : Creates(t, k)
    \/ Notes(t)
    \/ Repairs(t)

Validation(t) == \E v \in Own : ValidateReads(t, v) \/ Validates(t, v)

Publication(t) == Publishes(t) \/ \E v \in Own : PublishReads(t, v)

ProjectNext(t) ==
    \E i \in Keys :
        \/ CreationReplayed(t, i)
        \/ \E pins \in SUBSET Versions :
                Cardinality(pins) <= MaxPins /\ Pins(t, i, pins)
        \/ \E j \in Projects : ProjectCreated(t, j)
        \/ Remembers(t, i)

Next == \E t \in Threads :
    DraftNext(t) \/ Validation(t) \/ Publication(t) \/ ProjectNext(t) \/ Abandoned(t)

Spec == Init /\ [][Next]_vars

-----------------------------------------------------------------------------
\* The packages a run can be given are sound: a version that is published, or
\* that a project pins, has passed validation, and no request that races with
\* its repair or its publication changes that.  A pinned version that is
\* validated again is valid, and can be published again.
ServedIsSound ==
    \A v \in Versions :
        \/ version[v].status = "published"
        \/ \E j \in Projects : v \in project[j].pins
        => /\ version[v].package \in Sound
           /\ version[v].status \in {"valid", "published"}

\* Published skill bytes never change under the same version ID
\* (docs/contracts/versioning-contract.md).  Fails: a draft that a model wrote
\* can be validated and published before its author's second commit, which
\* then changes the package_json of a published version.
PublishedBytesKept ==
    [][\A v \in Versions : version[v].status = "published" =>
        /\ version'[v].package = version[v].package
        /\ version'[v].noted = version[v].noted]_vars

\* Requests with one key are answered with one project, even when several of
\* them found no record and each created a project.
AnswersAgree == \A i \in Keys : Cardinality(answers[i]) <= 1
=============================================================================

------------------------------- MODULE Knowledge -------------------------------
(***************************************************************************)
(* Knowledge: the folders and dropped files whose text the Spine holds     *)
(* (ingest/service.py, service_api.py, records.py), the watcher that reads *)
(* them again when they change (watcher.py), and the routes that take them *)
(* out (main.py).  A folder is not inside another here.                    *)
(* Streams and re-reads run on threads; the routes that are not streams    *)
(* run on the event loop, which a retry holds until it is done.            *)
(***************************************************************************)
EXTENDS Naturals, FiniteSets

CONSTANTS
  Folders,      (* folders of the person's own                               *)
  Uploads,      (* the directory of dropped and pasted files                 *)
  PerFolder,    (* files a folder may hold                                   *)
  MaxDropped,   (* files the directory may                                   *)
  Scopes,       (* where a scan or a drop may be read into: everyone's, and   *)
                (* perhaps a project                                         *)
  MaxStarts,    (* bound on the person's edits, scans, drops and retries     *)
  Streams,      (* scans and drops under way at once                         *)
  Chats,        (* replies that may carry a notice                           *)
  Replaces,     (* whether a save replaces the file as a whole               *)
  Sparse,       (* whether a problem file can have facts                     *)
  Mishaps,      (* streams abandoned, writes that fail, restarts             *)
  None

ASSUME KnowledgeAssumption ==
  /\ Uploads \notin Folders /\ {PerFolder, MaxDropped, MaxStarts} \subseteq Nat
  /\ {"watcher", "retry"} \cap Streams = {} /\ {Replaces, Sparse, Mishaps} \subseteq BOOLEAN

Roots == Folders \cup {Uploads}
Files == [in : Folders, n : 1..PerFolder] \cup [in : {Uploads}, n : 1..MaxDropped]
Jobs  == Streams \cup {"watcher", "retry"}

VARIABLES
  files,        (* a file's version, 0 where there is none                   *)
  source,       (* the sources table: root -> its row, or None            *)
  outcomes,     (* the outcomes table                                        *)
  spine,        (* the facts that came from files                            *)
  fresh,        (* the next id of a source, a scan, a row, a fact, an edit   *)
  starts,       (* what the person began so far                              *)
  job,          (* thread -> the reading it does                             *)
  leaving,      (* facts a withdrawal has yet to forget                      *)
  cut,          (* for the properties: facts a mishap left without a row     *)
  watching,     (* the roots the notifier was given                          *)
  changes,      (* what it has noticed and not handed over                   *)
  batch,        (* what it handed over and the watcher has not got to        *)
  chat          (* a reply's notice, between its reading and the mark        *)

tables == <<source, outcomes>>
watch  == <<watching, changes, batch>>
knowledgeVars == <<files, tables, spine, fresh, starts, job, leaving, cut, watch, chat>>

Resting   == [at |-> "idle", todo |-> {}, done |-> {}]
Empty     == [touched |-> {}, gone |-> {}]
Begins    == starts < MaxStarts /\ starts' = starts + 1
LoopFree  == job["retry"] = Resting
In(r)     == {f \in Files : f.in = r}
There(fs) == {f \in fs : files[f] > 0}

-----------------------------------------------------------------------------
(* The person's files, and what the notifier makes of them: a file that is  *)
(* replaced as a whole is one that went and one that came.                  *)

Notices(kinds, f) ==
  changes' = IF f.in \in watching THEN changes \cup {<<k, f>> : k \in kinds} ELSE changes

SaveFile(f) ==
  /\ f.in \in Folders /\ Begins
  /\ files' = [files EXCEPT ![f] = fresh] /\ fresh' = fresh + 1
  /\ Notices(IF Replaces THEN {"there", "gone"} ELSE {"there"}, f)
  /\ UNCHANGED <<tables, spine, job, leaving, cut, watching, batch, chat>>

RemoveFile(f) ==
  /\ f.in \in Folders /\ files[f] > 0 /\ Begins
  /\ files' = [files EXCEPT ![f] = 0]
  /\ Notices({"gone"}, f)
  /\ UNCHANGED <<tables, spine, fresh, job, leaving, cut, watching, batch, chat>>

-----------------------------------------------------------------------------
(* A reading: file by file, then the source's row, then its outcomes.       *)

Reading(how, root, scope, todo) ==
  [at |-> "reads", how |-> how, root |-> root, scope |-> scope, todo |-> todo, done |-> {}]

Outcome(f, version, facts, problem) ==
  [of |-> f, version |-> version, facts |-> facts, problem |-> problem]

Gone(f) == Outcome(f, 0, {}, TRUE)

(* POST /ingest.                                                            *)
Scan(j, r, scope) ==
  /\ job[j] = Resting /\ LoopFree /\ Begins
  /\ job' = [job EXCEPT ![j] = Reading("whole", r, scope, There(In(r)))]
  /\ UNCHANGED <<files, tables, spine, fresh, leaving, cut, watch, chat>>

(* A drop, an upload, a paste: each file is kept under the next name that   *)
(* is free, _unused_path.                                                   *)
TakeIn(j, fs, scope) ==
  /\ job[j] = Resting /\ LoopFree /\ Begins /\ fs # {} /\ There(fs) = {}
  /\ \A f \in fs, g \in In(Uploads) \ fs : g.n < f.n => files[g] > 0
  /\ files' = [f \in Files |-> IF f \in fs THEN 1 ELSE files[f]]
  /\ job' = [job EXCEPT ![j] = Reading("merge", Uploads, scope, fs)]
  /\ UNCHANGED <<tables, spine, fresh, leaving, cut, watch, chat>>

(* _ingest_one: a fact for a file that gave text, whatever its grade.       *)
Read(j) ==
  \E f \in job[j].todo :
    LET was == job[j]
        read(facts, problem) == [was EXCEPT !.todo = @ \ {f},
                                 !.done = @ \cup {Outcome(f, files[f], facts, problem)}] IN
    /\ was.at = "reads" /\ \A g \in was.todo : f.n <= g.n
    /\ \/ /\ job' = [job EXCEPT ![j] = read({}, TRUE)]
          /\ UNCHANGED <<starts, spine, fresh>>
       \/ /\ files[f] > 0
          /\ \E problem \in {FALSE, Sparse} : job' = [job EXCEPT ![j] = read({fresh}, problem)]
          /\ spine' = spine \cup {[id |-> fresh, of |-> f, version |-> files[f], scope |-> was.scope]}
          /\ fresh' = fresh + 1
    /\ UNCHANGED <<starts, files, tables, leaving, cut, watch, chat>>

(* upsert_source: a known root keeps its id, and its notice is due again.   *)
Upsert(j) ==
  /\ job[j].at = "reads" /\ job[j].todo = {} /\ job[j].how # "one"
  /\ LET r == job[j].root
         id == IF source[r] = None THEN fresh ELSE source[r].id IN
     /\ source' = [source EXCEPT ![r] = [id |-> id, scan |-> fresh, told |-> FALSE]]
     /\ job' = [job EXCEPT ![j].at = "records", ![j].todo = {id}]
  /\ fresh' = fresh + 1
  /\ UNCHANGED <<starts, files, outcomes, spine, leaving, cut, watch, chat>>

OutcomeRow(id, s, o) ==
  [id |-> id, source |-> s, of |-> o.of, version |-> o.version, facts |-> o.facts,
   problem |-> o.problem]

(* Mutant of Kept: the rows of before stay beside the new ones.            *)
KeptBeside(how, s, done) == outcomes

(* Mutant of Kept: a drop replaces the whole source's rows.                 *)
KeptByNone(how, s, done) == {x \in outcomes : x.source # s}

(* What record_outcomes and merge_outcomes leave of the rows there are.     *)
Kept(how, s, done) ==
  {x \in outcomes : x.source = s => how = "merge" /\ x.of \notin {o.of : o \in done}}

Record(j) ==
  /\ job[j].at = "records"
  /\ \E s \in job[j].todo :
       outcomes' = Kept(job[j].how, s, job[j].done) \cup {OutcomeRow(fresh, s, o) : o \in job[j].done}
  /\ fresh' = fresh + 1
  /\ job' = [job EXCEPT ![j] = Resting]
  /\ UNCHANGED <<starts, files, source, spine, leaving, cut, watch, chat>>

(* retry: a row's file is read again, for everyone, and the row rewritten   *)
(* if it is still there.                                                    *)
Retry(x) ==
  /\ LoopFree /\ Begins /\ x.problem
  /\ job' = [job EXCEPT !["retry"] =
       [at |-> "reads", how |-> "one", row |-> x, scope |-> "global",
        todo |-> There({x.of}), done |-> IF There({x.of}) = {} THEN {Gone(x.of)} ELSE {}]]
  /\ UNCHANGED <<files, tables, spine, fresh, leaving, cut, watch, chat>>

Replaced ==
  /\ job["retry"].at = "reads" /\ job["retry"].todo = {}
  /\ LET x == job["retry"].row IN
     outcomes' = {IF y.id = x.id /\ y.of = x.of THEN OutcomeRow(x.id, x.source, o) ELSE y :
                    y \in outcomes, o \in job["retry"].done}
  /\ job' = [job EXCEPT !["retry"] = Resting]
  /\ UNCHANGED <<starts, files, source, spine, fresh, leaving, cut, watch, chat>>

(* The stream's reader goes away, or something raises: what it read so far  *)
(* stays in the Spine.                                                      *)
Held(j) == UNION {o.facts : o \in job[j].done}

Abandon(j) ==
  /\ Mishaps /\ job[j] # Resting
  /\ job' = [job EXCEPT ![j] = Resting]
  /\ cut' = cut \cup Held(j)
  /\ UNCHANGED <<starts, files, tables, spine, fresh, leaving, watch, chat>>

-----------------------------------------------------------------------------
(* Withdrawing.                                                             *)

FactsOf(xs) == UNION {x.facts : x \in xs}
OwnCopies(xs) == {x.of : x \in xs} \cap In(Uploads)

GoesOut(xs) ==
  /\ outcomes' = outcomes \ xs
  /\ leaving' = leaving \cup FactsOf(xs)
  /\ files' = [f \in Files |-> IF f \in OwnCopies(xs) THEN 0 ELSE files[f]]

(* DELETE /ingest/sources/{id}: withdraw and forget_source, then the facts  *)
(* one by one.                                                              *)
Withdraw(r) ==
  /\ LoopFree /\ source[r] # None
  /\ GoesOut({x \in outcomes : x.source = source[r].id})
  /\ source' = [source EXCEPT ![r] = None]
  /\ UNCHANGED <<starts, spine, fresh, job, cut, watch, chat>>

(* DELETE /ingest/outcomes/{id}: the source stays.                          *)
WithdrawFile(x) ==
  /\ LoopFree /\ GoesOut({x})
  /\ UNCHANGED <<starts, source, spine, fresh, job, cut, watch, chat>>

ForgetFact(id) ==
  /\ LoopFree
  /\ leaving' = leaving \ {id}
  /\ \/ spine' = {k \in spine : k.id # id} /\ UNCHANGED cut
     \/ Mishaps /\ cut' = cut \cup {id} /\ UNCHANGED spine
  /\ UNCHANGED <<starts, files, tables, fresh, job, watch, chat>>

-----------------------------------------------------------------------------
(* The watcher. *)

Watched == {r \in Folders : source[r] # None}
AtRest  == LoopFree /\ job["watcher"] = Resting /\ batch = Empty

Attach ==
  /\ AtRest /\ watching = {} /\ Watched # {}
  /\ watching' = Watched /\ changes' = {}
  /\ UNCHANGED <<starts, files, tables, spine, fresh, job, leaving, cut, batch, chat>>

(* A quiet interval is over, and the folders are others by now.             *)
LookAgain ==
  /\ AtRest /\ watching # {} /\ changes = {} /\ Watched # watching
  /\ watching' = {}
  /\ UNCHANGED <<starts, files, tables, spine, fresh, job, leaving, cut, changes, batch, chat>>

(* Mutant of Left: what comes in while a batch is read goes with it.        *)
LeftNone(r, fs) == changes' = {c \in changes : c[2].in # r}
Left(r, fs) == UNCHANGED changes

HandOver ==
  /\ AtRest /\ changes # {}
  /\ batch' = [touched |-> {c[2] : c \in {d \in changes : d[1] = "there"}},
               gone    |-> {c[2] : c \in {d \in changes : d[1] = "gone"}}]
  /\ changes' = {}
  /\ UNCHANGED <<starts, files, tables, spine, fresh, job, leaving, cut, watching, chat>>

(* _apply, root by root: first what is there to be read, _reread; then what *)
(* went, _mark_gone.                                                        *)
Rereads(r) ==
  /\ LoopFree /\ job["watcher"] = Resting
  /\ LET fs == batch.touched \cap In(r) IN
     /\ fs # {}
     /\ batch' = [batch EXCEPT !.touched = @ \ fs]
     /\ Left(r, fs)
     /\ job' = IF There(fs) = {} THEN job
               ELSE [job EXCEPT !["watcher"] = Reading("whole", r, "global", There(fs))]
  /\ UNCHANGED <<starts, files, tables, spine, fresh, leaving, cut, watching, chat>>

MarksGone(r) ==
  /\ LoopFree /\ job["watcher"] = Resting /\ batch.touched = {}
  /\ LET fs == batch.gone \cap In(r) IN
     /\ fs # {}
     /\ batch' = [batch EXCEPT !.gone = @ \ fs]
     /\ job' = [job EXCEPT !["watcher"] =
                  [Reading("whole", r, "global", {}) EXCEPT !.done = {Gone(f) : f \in fs}]]
  /\ UNCHANGED <<starts, files, tables, spine, fresh, leaving, cut, watching, changes, chat>>

-----------------------------------------------------------------------------
(* notice_text: the latest scan nobody was told of, on a reply's thread.    *)

Untold == {r \in Roots : source[r] # None /\ ~source[r].told}

ReadsNotice(c) ==
  /\ chat[c] = None
  /\ \E r \in Untold :
       /\ \A q \in Untold : source[q].scan <= source[r].scan
       /\ chat' = [chat EXCEPT ![c] = source[r]]
  /\ UNCHANGED <<starts, files, tables, spine, fresh, job, leaving, cut, watch>>

Acknowledges(c) ==
  /\ chat[c] # None
  /\ source' = [r \in Roots |->
       IF source[r] # None /\ source[r].id = chat[c].id THEN [source[r] EXCEPT !.told = TRUE]
       ELSE source[r]]
  /\ chat' = [chat EXCEPT ![c] = None]
  /\ UNCHANGED <<starts, files, outcomes, spine, fresh, job, leaving, cut, watch>>

-----------------------------------------------------------------------------
NewRun ==
  /\ Mishaps
  /\ job' = [j \in Jobs |-> Resting] /\ leaving' = {}
  /\ cut' = cut \cup leaving \cup UNION {Held(j) : j \in Jobs}
  /\ watching' = {} /\ changes' = {} /\ batch' = Empty
  /\ chat' = [c \in Chats |-> None]
  /\ UNCHANGED <<starts, files, tables, spine, fresh>>

KnowledgeInit ==
  /\ files = [f \in Files |-> IF f.in = Uploads THEN 0 ELSE 1]
  /\ source = [r \in Roots |-> None] /\ outcomes = {} /\ spine = {} /\ fresh = 2 /\ starts = 0
  /\ job = [j \in Jobs |-> Resting] /\ leaving = {} /\ cut = {}
  /\ watching = {} /\ changes = {} /\ batch = Empty
  /\ chat = [c \in Chats |-> None]

Works(j) == Read(j) \/ Upsert(j) \/ Record(j)
Watches == Attach \/ LookAgain \/ HandOver \/ \E r \in Folders : Rereads(r) \/ MarksGone(r)

KnowledgeNext ==
  \/ \E f \in Files : SaveFile(f) \/ RemoveFile(f)
  \/ \E j \in Streams, scope \in Scopes :
       \/ \E r \in Folders : Scan(j, r, scope)
       \/ \E fs \in SUBSET In(Uploads) : TakeIn(j, fs, scope)
  \/ \E j \in Jobs : Works(j) \/ Abandon(j)
  \/ Replaced \/ Watches \/ NewRun
  \/ \E x \in outcomes : Retry(x) \/ WithdrawFile(x)
  \/ \E r \in Roots : Withdraw(r)
  \/ \E id \in leaving : ForgetFact(id)
  \/ \E c \in Chats : ReadsNotice(c) \/ Acknowledges(c)

(* A thread goes on reading, and a loop that is free takes its callbacks in *)
(* turn, the watcher's among them.                                          *)
KnowledgeFairness ==
  /\ SF_knowledgeVars(Watches) /\ WF_knowledgeVars(Works("watcher"))
  /\ WF_knowledgeVars(Works("retry") \/ Replaced)

KnowledgeSpec == KnowledgeInit /\ [][KnowledgeNext]_knowledgeVars /\ KnowledgeFairness

-----------------------------------------------------------------------------
(* Properties. *)

(* A file has one row under its source and a fact is of one row, in any     *)
(* order of scans, drops, re-reads, retries and withdrawals: the row is the *)
(* only way to take the fact back out.                                      *)
OneRowPerFile ==
  \A x, y \in outcomes :
    (x.source = y.source /\ x.of = y.of) \/ x.facts \cap y.facts # {} => x = y

Still == leaving = {} /\ \A j \in Jobs : job[j] = Resting

(* What a dropped file left in the Spine can be taken back, while nothing   *)
(* is under way and but for what a mishap cut off: a row names it ("the     *)
(* only route rule 4 has to take those facts back out", service_api.py,     *)
(* stream_ingest_paths).                                                    *)
DropsCanBeTakenBack ==
  Still => \A k \in spine : k.of.in = Uploads => k.id \in FactsOf(outcomes) \cup cut

(* A change in a watched folder comes to be what its row says of the file,  *)
(* unless the folders watched change first.                                 *)
EveryChangeIsRead ==
  \A f \in Files :
    (\E kind \in {"there", "gone"} : <<kind, f>> \in changes) ~>
      \/ \E x \in outcomes : x.of = f /\ x.version = files[f]
      \/ f.in \notin watching \/ source[f.in] = None

-----------------------------------------------------------------------------
(* What the code's own words promise and the runs refute.                   *)

(* "calling this for one would delete the other forty files' rows"          *)
(* (records.py, record_outcomes): a re-read of what changed leaves the rows *)
(* of the files it did not see.                                             *)
RereadLeavesOtherRows ==
  [][job["watcher"].at = "records" /\ job'["watcher"] = Resting =>
       \A x \in outcomes : x.of \notin {o.of : o \in job["watcher"].done} => x \in outcomes']_knowledgeVars

(* "Forget this folder and everything Zaram learned from it"                *)
(* (KnowledgeWorkspace.tsx): a folder withdrawn while nothing else is under *)
(* way has every fact of its files forgotten.                               *)
WithdrawTakesAll ==
  [][\A r \in Roots : Still /\ source[r] # None /\ source'[r] = None =>
       {k.id : k \in {m \in spine : m.of.in = r}} \subseteq leaving']_knowledgeVars

(* "a question about the new payment terms got the old ones" (watcher.py):  *)
(* once the watcher is at rest, what is recalled of a file it has read      *)
(* again is the file as it is.                                              *)
RecallIsCurrent ==
  AtRest /\ changes = {} /\ Still =>
    \A k \in spine, x \in outcomes : x.of = k.of /\ x.version = files[x.of] => k.version = files[x.of]

(* "left out of every other" (service_api.py, stream_ingest_paths): what    *)
(* was read into a project is not read again for everyone.                  *)
ProjectsKeepTheirFacts ==
  [][\A j \in {"watcher", "retry"}, k \in spine', m \in spine :
       job'[j] # job[j] /\ k \notin spine /\ m.of = k.of => k.scope = m.scope]_knowledgeVars

(* "a folder added or withdrawn in Settings is picked up" (watcher.py): a   *)
(* re-read makes no source.                                                 *)
WithdrawnStaysWithdrawn ==
  [][\A r \in Roots : source[r] = None /\ source'[r] # None =>
       \E j \in Streams : job[j].at = "reads" /\ job'[j].at = "records"]_knowledgeVars

(* "mentioned in the conversation the first time it matters" (records.py,   *)
(* pending_notice): a scan is not marked as told by a notice of another.    *)
NoticeIsNotSwallowed ==
  [][\A r \in Roots, c \in Chats :
       chat[c] # None /\ chat'[c] = None /\ source[r] # None /\ ~source[r].told =>
         source'[r] = source[r] \/ source[r].scan = chat[c].scan]_knowledgeVars

(* "one that disappears has its outcome marked as gone" (watcher.py): and   *)
(* not one that is there, and will not be looked at again.                  *)
MarkedGoneIsGone ==
  [][\A f \in Files : job["watcher"].at = "records" /\ job'["watcher"] = Resting
       /\ Gone(f) \in job["watcher"].done => files[f] = 0 \/ <<"there", f>> \in changes]_knowledgeVars
=============================================================================

--------------------------- MODULE ContentDiscovery ---------------------------
(***************************************************************************)
(* Content discovery over one share: the agent examines the files that are *)
(* already there, at a pass's slow pace, while its scans go on and report  *)
(* deletions and renames; the backend keeps one result per file, moves it  *)
(* with a rename and removes it with a deletion, matches and job included; *)
(* and the classification worker works on the samples all the while.       *)
(*                                                                         *)
(* A file's size and time are one number, its version; 0 is no file.       *)
(***************************************************************************)
EXTENDS Classification

CONSTANTS
    Paths,
    PostSize,   \* results per post
    MaxVersion, MaxLostPosts \* bounds of a behaviour

VARIABLES
    file,       \* the share
    version,    \* how often the share has changed, the last version given
    known,      \* the agent's view: the last completed scan's files
    scan,       \* the scan under way, and the deletions being followed
    pass,       \* the discovery pass
    result,     \* ContentScan by path: version and job
    late,       \* history: a result arrived after its file's deletion was followed
    followLost, \* history: following a deletion failed half way
    lostPosts

discVars == <<file, version, known, scan, pass, result, late, followLost, lostPosts>>
allVars == <<clsVars, discVars>>

NoResult == [version |-> 0, job |-> 0]
IdleScan == [pc |-> "idle"]
IdlePass == [pc |-> "idle"]

DiscInit ==
    /\ ClsInit
    /\ file = [p \in Paths |-> 0] /\ version = 0
    /\ known = [p \in Paths |-> 0]
    /\ scan = IdleScan /\ pass = IdlePass
    /\ result = [p \in Paths |-> NoResult]
    /\ late = FALSE /\ followLost = FALSE /\ lostPosts = 0

----------------------------------------------------------------------------
(* The share. *)

ShareChanges(files) ==
    /\ version < MaxVersion /\ version' = version + 1
    /\ file' = files
    /\ UNCHANGED <<clsVars, known, scan, pass, result, late, followLost, lostPosts>>

WriteFile(p) == ShareChanges([file EXCEPT ![p] = version + 1])

RemoveFile(p) == file[p] # 0 /\ ShareChanges([file EXCEPT ![p] = 0])

RenameFile(p, q) ==
    file[p] # 0 /\ file[q] = 0 /\ ShareChanges([file EXCEPT ![q] = file[p], ![p] = 0])

----------------------------------------------------------------------------
(* A scan, and what the backend does with the changes it reports. *)

Moved(seen) == {m \in Paths \X Paths : /\ known[m[1]] # 0 /\ seen[m[1]] = 0
                                       /\ known[m[2]] = 0 /\ seen[m[2]] = known[m[1]]}

Gone(seen) == {p \in Paths : known[p] # 0 /\ seen[p] = 0} \ {m[1] : m \in Moved(seen)}

\* The walk; its changes are posted, and followed one after the other.
Walk ==
    /\ scan.pc = "idle"
    /\ scan' = [pc |-> "follow", seen |-> file, gone |-> Gone(file), moved |-> Moved(file)]
    /\ UNCHANGED <<clsVars, file, version, known, pass, result, late, followLost, lostPosts>>

Removing(paths) == [pc |-> "matches", seen |-> scan.seen, gone |-> {}, moved |-> scan.moved,
                    found |-> {<<p, result[p]>> : p \in paths}, jobs |-> {result[p].job : p \in paths} \ {0}]

ResultsIn(paths) == {p \in paths : result[p].version # 0}

\* removeContentScans finds the results of the deleted paths first.
FollowDeleted ==
    /\ scan.pc = "follow" /\ scan.gone # {}
    /\ scan' = IF ResultsIn(scan.gone) = {} THEN [scan EXCEPT !.gone = {}]
               ELSE Removing(ResultsIn(scan.gone))
    /\ UNCHANGED <<clsVars, file, version, known, pass, result, late, followLost, lostPosts>>

\* A renamed file's result moves with it, unless there is one under the new
\* name: then it is removed like that of a deleted file.
FollowRenamed(p, q) ==
    /\ scan.pc = "follow" /\ scan.gone = {} /\ <<p, q>> \in scan.moved
    /\ LET rest == scan.moved \ {<<p, q>>}
       IN  scan' = IF result[q].version # 0
                   THEN [pc |-> "follow", seen |-> scan.seen, gone |-> {p}, moved |-> rest]
                   ELSE [pc |-> "move", seen |-> scan.seen, gone |-> {}, moved |-> rest, from |-> p, to |-> q]
    /\ UNCHANGED <<clsVars, file, version, known, pass, result, late, followLost, lostPosts>>

\* A result that was posted under the new name since then makes the statement
\* fail, and the rest of what the scan reported is not followed.
NameTaken == result[scan.from].version # 0 /\ result[scan.to].version # 0

\* The matches' own path follows; the model keeps none.
MoveResult ==
    /\ scan.pc = "move"
    /\ scan' = [pc |-> "follow", seen |-> scan.seen, gone |-> {}, moved |-> IF NameTaken THEN {} ELSE scan.moved]
    /\ followLost' = (followLost \/ NameTaken)
    /\ result' = IF NameTaken \/ result[scan.from].version = 0 THEN result
                 ELSE [result EXCEPT ![scan.to] = result[scan.from], ![scan.from] = NoResult]
    /\ UNCHANGED <<clsVars, file, version, known, pass, late, lostPosts>>

\* removeContentScans, three statements without a transaction.
RemoveMatches ==
    /\ scan.pc = "matches"
    /\ matches' = {m \in matches : m[1] \notin scan.jobs}
    /\ scan' = [scan EXCEPT !.pc = "jobs"]
    /\ UNCHANGED <<job, raised, noted, policy, cached, tick, inserts, crossed, clsFaults,
                   file, version, known, pass, result, late, followLost, lostPosts>>

Without(jobs) == [j \in JobIds |-> IF j \in jobs THEN [AbsentJob EXCEPT !.status = "REMOVED"] ELSE job[j]]

\* A match recorded in between still refers to the job: the statement fails,
\* and the rest of what the scan reported is not followed.
RemoveJob ==
    /\ scan.pc = "jobs"
    /\ IF \E m \in matches : m[1] \in scan.jobs
       THEN /\ followLost' = TRUE
            /\ scan' = [pc |-> "follow", seen |-> scan.seen, gone |-> {}, moved |-> {}]
            /\ job' = job
       ELSE /\ job' = Without(scan.jobs)
            /\ scan' = [scan EXCEPT !.pc = "results"]
            /\ UNCHANGED followLost
    /\ UNCHANGED <<matches, raised, noted, policy, cached, tick, inserts, crossed, clsFaults,
                   file, version, known, pass, result, late, lostPosts>>

\* By id: a result that was replaced meanwhile stays.
RemoveResults ==
    /\ scan.pc = "results"
    /\ result' = [p \in Paths |-> IF <<p, result[p]>> \in scan.found THEN NoResult
                                  ELSE result[p]]
    /\ scan' = [pc |-> "follow", seen |-> scan.seen, gone |-> {}, moved |-> scan.moved]
    /\ UNCHANGED <<clsVars, file, version, known, pass, late, followLost, lostPosts>>

\* The scan is complete: a pass begins if none is running and one is due.
ScanCompletes ==
    /\ scan.pc = "follow" /\ scan.gone = {} /\ scan.moved = {}
    /\ known' = scan.seen
    /\ scan' = IdleScan
    /\ pass' = IF pass.pc = "idle" THEN [pc |-> "fetch"] ELSE pass
    /\ UNCHANGED <<clsVars, file, version, result, late, followLost, lostPosts>>

----------------------------------------------------------------------------
(* A pass. *)

Todo == {p \in Paths : known[p] # 0 /\ result[p].version # known[p]}

\* What is examined already is fetched, and the rest planned.
PlanPass ==
    /\ pass.pc = "fetch"
    /\ pass' = [pc |-> "read", todo |-> {[path |-> p, version |-> known[p]] : p \in Todo}, batch |-> <<>>]
    /\ UNCHANGED <<clsVars, file, version, known, scan, result, late, followLost, lostPosts>>

\* The newest of what is planned; the latest scan's entry, when the file itself may
\* be gone or newer by now.
ReadFile ==
    /\ pass.pc = "read" /\ Len(pass.batch) < PostSize
    /\ \E x \in pass.todo :
         /\ \A y \in pass.todo : y.version <= x.version
         /\ LET p == x.path
            IN  pass' = [pass EXCEPT !.todo = @ \ {x},
                                     !.batch = IF known[p] = 0 THEN @
                                               ELSE Append(@, [path |-> p, version |-> known[p],
                                                               sample |-> file[p] # 0])]
    /\ UNCHANGED <<clsVars, file, version, known, scan, result, late, followLost, lostPosts>>

StartPost ==
    /\ pass.pc = "read" /\ pass.batch # <<>>
    /\ Len(pass.batch) = PostSize \/ pass.todo = {}
    /\ pass' = [pass EXCEPT !.pc = "post"]
    /\ UNCHANGED <<clsVars, file, version, known, scan, result, late, followLost, lostPosts>>

\* One file of a post: nothing if it was examined as it is; else, in one
\* transaction, the old result goes and the new one gets a job if there is text.
Examined(f, text) ==
    LET old == result[f.path]
        cleared == Without({old.job} \ {0})
        id == IF f.sample THEN NextJob ELSE 0
    IN  /\ f.sample /\ old.version # f.version => Unused # {}
        /\ IF old.version = f.version THEN UNCHANGED <<job, matches, result, late>>
           ELSE /\ job' = IF f.sample
                          THEN [cleared EXCEPT ![id] = [status |-> "PENDING", discovery |-> TRUE, text |-> text]]
                          ELSE cleared
                /\ matches' = {m \in matches : m[1] # old.job}
                /\ result' = [result EXCEPT ![f.path] = [version |-> f.version, job |-> id]]
                /\ late' = (late \/ known[f.path] = 0 \/ (scan.pc # "idle" /\ scan.seen[f.path] = 0))
        /\ UNCHANGED <<raised, noted, policy, cached, tick, inserts, crossed, clsFaults,
                       file, version, known, scan, followLost, lostPosts>>

PostResult ==
    /\ pass.pc = "post"
    /\ \E text \in Texts : Examined(Head(pass.batch), text)
    /\ pass' = [pass EXCEPT !.batch = Tail(@), !.pc = IF Len(pass.batch) = 1 THEN "read" ELSE "post"]

\* The post is refused or lost; the next pass finds these files not examined.
PostLost ==
    /\ pass.pc = "post" /\ lostPosts < MaxLostPosts
    /\ lostPosts' = lostPosts + 1
    /\ pass' = [pass EXCEPT !.pc = "read", !.batch = <<>>]
    /\ UNCHANGED <<clsVars, file, version, known, scan, result, late, followLost>>

PassEnds ==
    /\ pass.pc = "read" /\ pass.todo = {} /\ pass.batch = <<>>
    /\ pass' = IdlePass
    /\ UNCHANGED <<clsVars, file, version, known, scan, result, late, followLost, lostPosts>>

PassStep == PlanPass \/ ReadFile \/ StartPost \/ PostResult \/ PassEnds

ScanStep ==
    \/ Walk \/ FollowDeleted \/ RemoveMatches \/ RemoveJob \/ RemoveResults \/ ScanCompletes
    \/ MoveResult \/ \E p, q \in Paths : FollowRenamed(p, q)

DiscNext ==
    \/ \E p \in Paths : WriteFile(p) \/ RemoveFile(p) \/ \E q \in Paths : RenameFile(p, q)
    \/ ScanStep \/ PassStep \/ PostLost
    \/ ClsNext /\ UNCHANGED discVars

DiscSpec == DiscInit /\ [][DiscNext]_allVars

\* The agent scans on its interval, and its pass and the worker run on.
DiscFairness == WF_allVars(ScanStep) /\ WF_allVars(PassStep)

----------------------------------------------------------------------------
(* Properties. *)

\* A job of discovery is the job of one result, or being removed with it: none
\* is left behind by replacements, renames and removals that overlap.
JobsHaveResults ==
    \A j \in JobIds : Exists(j) /\ job[j].discovery =>
        \E p \in Paths : result[p].job = j /\ \A q \in Paths \ {p} : result[q].job # j

\* When the agent has caught up with the share, a file that is gone has no
\* result and no matches left, unless its result arrived after its deletion
\* was followed, or following it failed.
ResultsFollowFiles ==
    scan.pc = "idle" /\ known = file /\ ~late /\ ~followLost =>
        \A p \in Paths : file[p] = 0 => result[p].version = 0

\* Whose matches are deleted and whose row may still be there.
BeingRemoved == IF scan.pc \in {"jobs", "results"} THEN scan.jobs ELSE {}

\* A job that is done is complete, unless its file is just being removed, or
\* that failed half way.
DoneIsComplete ==
    ~followLost => \A j \in JobIds \ BeingRemoved : job[j].status = "DONE" => Complete(j)

\* A finding is recorded once and whole, its note stays one, and results of
\* discovery go with their files and their jobs.
ClassificationHolds ==
    RecordedOnce /\ DoneIsComplete /\ OneOpenNote /\ JobsHaveResults /\ ResultsFollowFiles

\* Once the share is left alone, every file on it is examined as it is.
AllExamined == <>[](\A p \in Paths : file[p] # 0 => result[p].version = file[p])
=============================================================================

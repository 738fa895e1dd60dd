----------------------------- MODULE Quarantine -----------------------------
(***************************************************************************)
(* The local agent's side of FILE_QUARANTINE: pollOnce, which fetches the  *)
(* approved commands, moves every path of a command into the quarantine    *)
(* folder concurrently (Promise.all) and reports one outcome for the       *)
(* command; and quarantineLocalFile, which looks for a free name in the    *)
(* folder before the rename lands.  pollOnce runs on setInterval, so polls *)
(* overlap when one takes longer than the interval.                        *)
(*                                                                         *)
(* held is a variable of ResponseActions: what each poll has fetched and   *)
(* not yet reported.  The requests that fetch and report are composed with *)
(* the steps below in ResponseLoop.  A file is a path under the watched    *)
(* root; the names computeQuarantinePath tries for it, in order, are       *)
(* Candidates[f].                                                          *)
(***************************************************************************)
EXTENDS Naturals, Sequences, FiniteSets

CONSTANTS
    Commands,    \* ids of the FILE_QUARANTINE rows
    Files,       \* paths under the watched root
    PathsOf,     \* [Commands -> SUBSET Files]: metadata.path or affectedPaths
    Names,       \* names in the quarantine folder
    NoFile,      \* an unused name
    Candidates,  \* [Files -> Seq(Names)]: what computeQuarantinePath tries
    Polls        \* agent polls that may overlap

VARIABLES
    held,     \* [Polls -> commands fetched and not yet reported]
    inPlace,  \* files still at their path under the watched root
    folder,   \* [Names -> the file of that name in the quarantine folder]
    moves,    \* quarantineOne calls of the command each poll is working on
    moved     \* history: files a rename took out of their place

Move == [poll : Polls, command : Commands, file : Files,
         step : {"mkdir", "rename", "ok", "failed"}, name : Names \cup {NoFile}]

MovesOf(p) == {m \in moves : m.poll = p}
Settled(p) == \A m \in MovesOf(p) : m.step \in {"ok", "failed"}

AgentInit ==
    /\ inPlace = Files
    /\ folder = [s \in Names |-> NoFile]
    /\ moves = {}
    /\ moved = {}

\* Promise.all: every path of the next command at once.
BeginCommand(p, c) ==
    /\ MovesOf(p) = {} /\ c \in held[p]
    /\ moves' = moves \cup {[poll |-> p, command |-> c, file |-> f, step |-> "mkdir", name |-> NoFile] :
                              f \in PathsOf[c]}
    /\ UNCHANGED <<held, inPlace, folder, moved>>

Trying(m, s) == [poll |-> m.poll, command |-> m.command, file |-> m.file, step |-> "rename", name |-> s]

\* mkdir returns; existsSync finds the first name that nothing has yet.
FindName(m) ==
    /\ m.step = "mkdir"
    /\ \E k \in DOMAIN Candidates[m.file] :
          /\ folder[Candidates[m.file][k]] = NoFile
          /\ \A j \in 1..(k - 1) : folder[Candidates[m.file][j]] # NoFile
          /\ moves' = (moves \ {m}) \cup {Trying(m, Candidates[m.file][k])}
    /\ UNCHANGED <<held, inPlace, folder, moved>>

\* Mutant of Rename: a copy that leaves the original where it was.
CopyInstead(m) ==
    /\ m.step = "rename" /\ m.file \in inPlace
    /\ folder' = [folder EXCEPT ![m.name] = m.file]
    /\ moved' = moved \cup {m.file}
    /\ moves' = (moves \ {m}) \cup {[m EXCEPT !.step = "ok"]}
    /\ UNCHANGED <<held, inPlace>>

\* rename replaces whatever has the name by now.  It fails if the file is gone,
\* and it may fail though the file is there (no permission, another volume).
RenameLands(m) ==
    /\ m.file \in inPlace
    /\ folder' = [folder EXCEPT ![m.name] = m.file]
    /\ inPlace' = inPlace \ {m.file}
    /\ moved' = moved \cup {m.file}
    /\ moves' = (moves \ {m}) \cup {[m EXCEPT !.step = "ok"]}

RenameFails(m) ==
    /\ moves' = (moves \ {m}) \cup {[m EXCEPT !.step = "failed"]}
    /\ UNCHANGED <<folder, inPlace, moved>>

Rename(m) ==
    /\ m.step = "rename"
    /\ RenameLands(m) \/ RenameFails(m)
    /\ UNCHANGED held

\* A user deletes or renames the file.
FileVanishes(f) ==
    /\ f \in inPlace
    /\ inPlace' = inPlace \ {f}
    /\ UNCHANGED <<held, folder, moves, moved>>

\* One outcome for the command: success only if no path failed.
Succeeded(p) == \A m \in MovesOf(p) : m.step = "ok"

\* The agent's part in reporting c, whatever becomes of the request.
Report(p, c) ==
    /\ \E m \in MovesOf(p) : m.command = c
    /\ Settled(p)
    /\ moves' = moves \ MovesOf(p)
    /\ UNCHANGED <<inPlace, folder, moved>>

\* The agent restarts; a rename already issued may or may not have landed.
AgentRestart ==
    /\ held' = [p \in Polls |-> {}]
    /\ moves' = {}
    /\ UNCHANGED <<inPlace, folder, moved>>

\* The moves that change only the agent's own state.
LocalStep(p) ==
    \/ \E c \in Commands : BeginCommand(p, c)
    \/ \E m \in MovesOf(p) : FindName(m) \/ Rename(m)

-----------------------------------------------------------------------------
\* Moving a file into quarantine overwrites nothing that is there: every file
\* taken out of its place is in the folder.
NothingOverwritten == \A f \in moved : \E s \in Names : folder[s] = f

\* A file is in one place: under the watched root, or in quarantine.
OnePlace ==
    /\ \A s \in Names : folder[s] # NoFile => folder[s] \in moved \ inPlace
    /\ \A s, t \in Names : folder[s] = folder[t] /\ folder[s] # NoFile => s = t
=============================================================================

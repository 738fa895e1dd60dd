------------------------------- MODULE MCLive -------------------------------
(***************************************************************************)
(* Instances for liveness.  The components share no variable, so each is   *)
(* explored, under its own fairness, while the others rest; part says      *)
(* which one moves:                                                        *)
(*   respond    an alert the backend raises, sent without approval, a run  *)
(*              of the policy and an administrator; rows grow old;         *)
(*   deploy     two machines, one job per sync, the page open;             *)
(*   session    one process with two callers;                              *)
(*   settings   two pages, a reader, and the five seconds of the copy;     *)
(*   retention  one event that is sampled, the hourly sweep and another.   *)
(***************************************************************************)
EXTENDS ResponseActions, Deployments, AgentSession, Settings, Retention, TLC

CONSTANTS a1, w1, w1b, n1, r1, d1, d2, g1, s1, host1, host2, p1, c1, c2,
          pg1, pg2, i1, kw, kn, e1, hs, rs,
          Parts

VARIABLE part

MCAbout     == [w \in Actions |-> a1]
MCTypeOf    == [w \in Actions |-> "WEBHOOK_NOTIFICATION"]
TwoMachines == [d \in Ids |-> IF d = d1 THEN host1 ELSE host2]
OneProcess  == [c \in Calls |-> p1]
MCPageOf    == [i \in Uploads |-> pg1]
MCWeak      == {<<kw, 1>>}
MCImports   == {[k \in {kw} |-> 1]}
MCLimits    == {[enabled |-> FALSE, days |-> 1], [enabled |-> TRUE, days |-> 1], [enabled |-> TRUE, days |-> 2]}

AllVars == <<part, vars, deployVars, sessionVars, settingsVars, retVars>>

LiveInit == /\ part \in Parts
            /\ Init /\ DeployInit /\ SessionInit /\ SettingsInit /\ RetentionInit
            /\ limit.days > 1 => part = "retention"

\* The alert is not acknowledged, only resolved: no other step tells the two apart.
LiveNext ==
    \/ /\ part = "respond" /\ Next
       /\ \A a \in Alerts : alert'[a] # "ACKNOWLEDGED"
       /\ UNCHANGED <<part, deployVars, sessionVars, settingsVars, retVars>>
    \/ part = "deploy" /\ DeployNext /\ UNCHANGED <<part, vars, sessionVars, settingsVars, retVars>>
    \/ part = "session" /\ SessionNext /\ UNCHANGED <<part, vars, deployVars, settingsVars, retVars>>
    \/ part = "settings" /\ SettingsNext /\ UNCHANGED <<part, vars, deployVars, sessionVars, retVars>>
    \/ part = "retention" /\ RetentionNext /\ UNCHANGED <<part, vars, deployVars, sessionVars, settingsVars>>

\* A run goes on to its end, so one that began outside the quiet hours is under
\* way again and again just when such runs begin again and again.
RespondFairness ==
    /\ \A n \in Runs : /\ WF_vars(part = "respond" /\ ContinueRun(n))
                       /\ []<>(part = "respond" => run[n].pc # "idle" /\ ~run[n].quiet)
    /\ \A t \in Tasks : WF_vars(part = "respond" /\ ExecuteFor(t))
    /\ \A r \in Requests : WF_vars(part = "respond" /\ DecideFor(r))

FieldFairness ==
    /\ \A r \in Creators : WF_deployVars(part = "deploy" /\ ContinueCreate(r))
    /\ \A g \in DeployPages : WF_deployVars(part = "deploy" /\ Listing(g))
    /\ \A s \in Syncs : WF_deployVars(part = "deploy" /\ (Syncing(s) \/ AnswerLost(s)))
    /\ \A d \in Ids : WF_deployVars(part = "deploy" /\ Installing(d))
    /\ \A p \in Processes : /\ WF_sessionVars(part = "session" /\ Registering(p))
                            /\ WF_sessionVars(part = "session" /\ FiveSecondsPass(p))
    /\ \A c \in Calls : WF_sessionVars(part = "session" /\ Calling(c))

ConsoleFairness ==
    /\ \A r \in Readers : WF_settingsVars(part = "settings" /\ EndRead(r))
    /\ \A o \in Pages \cup Uploads : WF_settingsVars(part = "settings" /\ BackendStep(o))
    /\ WF_settingsVars(part = "settings" /\ CopyAges)
    /\ \A s \in Sweepers : WF_retVars(part = "retention" /\ SweepStep(s))
    /\ WF_retVars(part = "retention" /\ StartSweep(Hourly)) /\ WF_retVars(part = "retention" /\ DayPasses)
    /\ \A e \in Events : WF_retVars(part = "retention" /\ Classify(e))

LiveSpec == LiveInit /\ [][LiveNext]_AllVars /\ RespondFairness /\ FieldFairness /\ ConsoleFairness

\* An agent and its callers end up with the valid secret (where it is started).
AgentRecovers == part = "session" => Recovers

\* What lags behind catches up: an agent with its secret, the copy of the
\* settings with the rows, the events with their limit.
StateCatchesUp == AgentRecovers /\ CopyCatchesUp /\ OldGoes
=============================================================================

--------------------------- MODULE MCAuditPipelines ---------------------------
(***************************************************************************)
(* The two implementations of AuditTrail, for TLC: the logger of the LLM    *)
(* proxy, which writes to Postgres, and the one of the Rust gateways, which *)
(* posts to the control plane.  They share nothing, so the initial state    *)
(* picks one and the other stands still.                                    *)
(***************************************************************************)
EXTENDS AuditLogger

VARIABLES pipeline,   \* the one that runs
          gEnabled, gFresh, gChannel, gBatch, gTask, gPosted, gLimbo, gAccepted, gReceived

G == INSTANCE GatewayAudit
       WITH enabled <- gEnabled, fresh <- gFresh, channel <- gChannel, batch <- gBatch,
            task <- gTask, posted <- gPosted, limbo <- gLimbo, accepted <- gAccepted,
            received <- gReceived

gVars == <<gEnabled, gFresh, gChannel, gBatch, gTask, gPosted, gLimbo, gAccepted, gReceived>>
all   == <<pipeline, vars, gVars>>

MCInit ==
    /\ pipeline \in {"logger", "gateway"}
    /\ pipeline = "logger"  => gEnabled = "off"
    /\ pipeline = "gateway" => pool = "none"
    /\ Init /\ G!Init

LoggerStep  == pipeline = "logger"  /\ Next   /\ UNCHANGED <<pipeline, gVars>>
GatewayStep == pipeline = "gateway" /\ G!Next /\ UNCHANGED <<pipeline, vars>>

MCNext == LoggerStep \/ GatewayStep

\* The fairness of AuditLogger!FairSpec and of GatewayAudit!FairSpec, for the pipeline
\* that runs.
MCFairness ==
    /\ WF_vars(pipeline = "logger" /\ (RunStep \/ InsertFails \/ CommitFails))
    /\ WF_vars(pipeline = "logger" /\ CloseStep)
    /\ WF_gVars(pipeline = "gateway" /\ (G!Recv \/ G!IntervalTick \/ G!SendBatchReturns))

MCSpec == MCInit /\ [][MCNext]_all /\ MCFairness

-----------------------------------------------------------------------------
\* With requests and answers lost or late and the gateway stopped at any moment, what
\* the control plane receives is an audit trail of what was recorded: whole batches, in
\* order but for late ones, and no event twice.
GatewayImplementsAuditTrail == G!ImplementsAuditTrail

\* An event that entered the gateway's channel is sent or given up without further
\* traffic, unless the process stops first.
EveryEventLeaves == G!EveryEventLeaves
=============================================================================

--------------------------- MODULE GatewayStartup ---------------------------
(***************************************************************************)
(* How the Rust gateway comes up (rust-gateway/src/main.rs, config.rs,      *)
(* telemetry.rs): main sets up tracing, loads the configuration from the    *)
(* environment, makes the token validator or exits, spawns the server and   *)
(* waits for a signal.  Docker starts it again when it has exited; the      *)
(* operator may create the container anew with another environment.         *)
(*                                                                          *)
(* The environment stands for one variable of each kind: PORT, a name the   *)
(* loader looks for; APPGATE_PORT, the name the compose file sets;          *)
(* APPGATE_CIRCUIT_BREAKER_*, a section whose fields all have defaults;     *)
(* APPGATE_JWT_ENABLED and _KEY_PATH, a section with a field that has none. *)
(***************************************************************************)
EXTENDS Naturals

Environments ==
    [bare    : {"unset", "set", "malformed"},    \* PORT
     port    : {"unset", "set", "malformed"},    \* APPGATE_PORT
     breaker : {"unset", "set", "malformed"},
     enabled : {"unset", "set", "malformed"},
     key     : {"unset", "usable", "unusable"}]  \* a PEM file of a known family, or not

VARIABLES env,       \* the environment of the container
          main,      \* program counter of main
          tracer,    \* where spans go
          cfg,       \* what from_env returned
          server     \* the task of AppGateServer::run

vars == <<env, main, tracer, cfg, server>>

-----------------------------------------------------------------------------
(* config.rs                                                                 *)

\* GatewayConfig::default(): the default_* functions for its own fields, the derived
\* defaults of the sections, in which every number is 0 and every path None.
Default == [port |-> "default", breaker |-> "zero", key |-> "none"]

\* What the variables of the compose file would make of the sections: JwtConfig::enabled
\* has no default, a section without it is an error.
Deserializes(e) ==
    /\ "malformed" \notin {e.port, e.breaker, e.enabled}
    /\ e.key # "unset" => e.enabled = "set"

\* GatewayConfig::from_env.  envy::from_env (external) looks for names without the prefix
\* APPGATE_ and cannot fill a section, which keeps its derived default; a value that does
\* not parse gives the default configuration.
FromEnv(e) == IF e.bare = "set" THEN [Default EXCEPT !.port = "env"] ELSE Default

-----------------------------------------------------------------------------
(* main                                                                      *)

Init ==
    /\ env \in Environments
    /\ main = "tracing" /\ tracer = "none" /\ cfg = Default /\ server = "none"

\* init_tracer_provider: spans go to the collector, and through a guard are flushed at
\* the end of main, or to standard output only.
InitTracerProvider ==
    /\ main = "tracing"
    /\ main' = "config"
    /\ tracer' \in {"otlp", "stdout"}
    /\ UNCHANGED <<env, cfg, server>>

LoadConfig ==
    /\ main = "config"
    /\ main' = "validator"
    /\ cfg' = FromEnv(env)
    /\ UNCHANGED <<env, tracer, server>>

\* JwtValidator::new: without a key file that can be read there is no validator; a JWKS
\* URL does not help.
NewJwtValidator ==
    /\ main = "validator" /\ cfg.key = "usable"
    /\ main' = "spawn"
    /\ UNCHANGED <<env, tracer, cfg, server>>

\* std::process::exit(1): nothing is dropped, the guard flushes nothing.
NoJwtValidator ==
    /\ main = "validator" /\ cfg.key # "usable"
    /\ main' = "failed"
    /\ UNCHANGED <<env, tracer, cfg, server>>

\* The health checker, the state with a limiter of its own, and the server's task.
Spawn ==
    /\ main = "spawn"
    /\ main' = "waiting" /\ server' = "starting"
    /\ UNCHANGED <<env, tracer, cfg>>

Bind ==
    /\ server = "starting"
    /\ server' = "listening"
    /\ UNCHANGED <<env, main, tracer, cfg>>

\* The error of run is logged by its task and nobody else hears of it: main keeps waiting
\* for a signal, in a process that does not listen.
BindFails ==
    /\ server = "starting"
    /\ server' = "failed"
    /\ UNCHANGED <<env, main, tracer, cfg>>

Signal ==
    /\ main = "waiting"
    /\ main' = "joining"
    /\ UNCHANGED <<env, tracer, cfg, server>>

\* The join, or its timeout; then the guard is dropped and the runtime with its tasks.
Finish ==
    /\ main = "joining"
    /\ main' = "ended" /\ server' = "none" /\ tracer' = "none"
    /\ UNCHANGED <<env, cfg>>

\* restart: unless-stopped.
Restart ==
    /\ main \in {"failed", "ended"}
    /\ main' = "tracing" /\ tracer' = "none" /\ cfg' = Default /\ server' = "none"
    /\ UNCHANGED env

\* The operator creates the container anew, with another environment.
Recreate(e) ==
    /\ main \in {"failed", "ended"}
    /\ env' = e
    /\ main' = "tracing" /\ tracer' = "none" /\ cfg' = Default /\ server' = "none"

-----------------------------------------------------------------------------
Next ==
    \/ InitTracerProvider \/ LoadConfig \/ NewJwtValidator \/ NoJwtValidator
    \/ Spawn \/ Bind \/ BindFails \/ Signal \/ Finish \/ Restart
    \/ \E e \in Environments : Recreate(e)

Spec == Init /\ [][Next]_vars

-----------------------------------------------------------------------------
\* Every variable has its type.
TypeOK ==
    /\ env \in Environments
    /\ main \in {"tracing", "config", "validator", "spawn", "waiting", "joining", "failed",
                 "ended"}
    /\ tracer \in {"none", "otlp", "stdout"}
    /\ cfg \in [port : {"default", "env"}, breaker : {"zero"}, key : {"none"}]
    /\ server \in {"none", "starting", "listening", "failed"}

\* The gateway refuses to start only when APPGATE_JWT_KEY_PATH names no usable key or some
\* variable cannot be read: what the message of JwtValidator::new asks for helps.
KeyPathHonoured ==
    main = "failed" => env.key # "usable" \/ ~Deserializes(env)
=============================================================================

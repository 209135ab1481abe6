------------------------------ MODULE Startup ------------------------------
(***************************************************************************)
(* What `run` finds on a device on its way to the transports (app.go): the *)
(* configuration, the credentials, the actions and the outbox directory.   *)
(*                                                                         *)
(* The device is the set of its faults: each fault is one way in which a   *)
(* file, a value or a directory keeps the agent from starting.             *)
(***************************************************************************)
EXTENDS Naturals

\* Load and DecodeYAML: the file cannot be opened or read, its YAML is empty,
\* malformed or has an unknown field.
FileFaults == {"config_missing", "config_is_dir", "config_yaml"}

\* Validate, section by section.
SectionFaults == {"cloud", "agent", "security", "logging"}

\* identity.Load: no file, a mode that Linux does not want, its JSON, a field.
CredentialFaults == {"cred_missing", "cred_mode", "cred_json", "cred_invalid"}

\* Not faults by themselves: a transport is switched off.
Switches == {"ws_disabled", "pull_disabled"}

\* Two more: allow_actions names an action that DefaultSpecs does not have,
\* and the outbox directory can be neither created nor read.
Faults == FileFaults \cup SectionFaults \cup CredentialFaults \cup Switches
          \cup {"unknown_action", "outbox_dir"}

-----------------------------------------------------------------------------
validateConfig(env) == env \cap SectionFaults = {}

configLoads(env) == env \cap FileFaults = {} /\ validateConfig(env)

identityLoads(env) == env \cap CredentialFaults = {}

\* NewDefaultRegistry always succeeds on the table of specs.go.
ValidateAllowedActions(env) == "unknown_action" \notin env

loadRuntime(env) ==
    configLoads(env) /\ identityLoads(env) /\ ValidateAllowedActions(env)

\* NewStore creates the outbox directory and reads it; it does not write.
storeOpens(env) == "outbox_dir" \notin env

NoTransport(env) == Switches \subseteq env

\* app.Run: an error, a process that waits for its end, or the transports.
\* A fault of mgate.sh is logged and no more (app.go:47).
runOutcome(env) ==
    IF ~loadRuntime(env) \/ ~storeOpens(env) THEN "error"
    ELSE IF NoTransport(env) THEN "idle"
    ELSE "up"
=============================================================================

-------------------------------- MODULE Config --------------------------------
(***************************************************************************)
(* Configuration, internal/config/config.go: where the value of a variable *)
(* comes from, how it is parsed, and what Validate accepts.  An            *)
(* environment is a function from the variables it sets to their values;   *)
(* values that the program does not tell apart are one value here.         *)
(***************************************************************************)
EXTENDS FiniteSets

CONSTANTS Blank,       \* the empty value, or nothing but white space
          Unreadable,  \* a .env file that is missing or malformed
          NoConfig     \* Load or Validate has failed

Booleans == {"NGROK_ENABLED", "CLEAR_REASONING_CACHE"}

\* The built-in defaults.
Default == [NGROK_ENABLED |-> "false", NGROK_AUTHTOKEN |-> Blank, NGROK_URL |-> Blank,
            CLEAR_REASONING_CACHE |-> "false", TRACE_DIR |-> Blank,
            REQUEST_TIMEOUT |-> "300", MISSING_REASONING_STRATEGY |-> "recover"]

\* What strconv.ParseFloat accepts, what is not <= 0, and what is still
\* positive as a time.Duration: of NaN and 1e-10 only the last is not true.
Numbers == {"300", "0", "NaN", "1e-10"}
NotBelowZero == {"300", "NaN", "1e-10"}
Durations == {"300"}

-----------------------------------------------------------------------------

Overlay(low, high) == [v \in DOMAIN low \cup DOMAIN high |->
                          IF v \in DOMAIN high THEN high[v] ELSE low[v]]

\* An error of godotenv.Read is dropped.
ReadEnvFile(file) == IF file = Unreadable THEN <<>> ELSE file

\* Mutant of MergeEnvFiles: the home file is read last.
HomeWins(project, home) == Overlay(ReadEnvFile(project), ReadEnvFile(home))

MergeEnvFiles(project, home) == Overlay(ReadEnvFile(home), ReadEnvFile(project))

\* The process environment once Load has added what it did not set.
Environment(s) == Overlay(MergeEnvFiles(s.project, s.home), s.process)

\* A variable that is set to nothing has its default, whatever a lower source says.
Value(env, v) == IF v \in DOMAIN env /\ env[v] # Blank THEN env[v] ELSE Default[v]

\* The variables FromEnv cannot parse.
Malformed(env) == {v \in Booleans : Value(env, v) \notin {"true", "false"}}
                  \cup {v \in {"REQUEST_TIMEOUT"} : Value(env, v) \notin Numbers}

FromEnv(env) == [ngrok    |-> Value(env, "NGROK_ENABLED") = "true",
                 token    |-> Value(env, "NGROK_AUTHTOKEN"),
                 url      |-> Value(env, "NGROK_URL"),
                 clear    |-> Value(env, "CLEAR_REASONING_CACHE") = "true",
                 trace    |-> Value(env, "TRACE_DIR") # Blank,
                 timeout  |-> Value(env, "REQUEST_TIMEOUT"),
                 strategy |-> Value(env, "MISSING_REASONING_STRATEGY")]

\* The tunnel's settings only matter when it is enabled.
Validate(c) == /\ c.timeout \in NotBelowZero
               /\ c.strategy \in {"recover", "reject"}
               /\ c.ngrok => /\ c.token # Blank
                             /\ c.url \in {Blank, "https"}

\* Load and Validate.
Configuration(s) ==
    IF Malformed(Environment(s)) = {} /\ Validate(FromEnv(Environment(s)))
    THEN FromEnv(Environment(s)) ELSE NoConfig

=============================================================================

---------------------------- MODULE RuntimeSettings ----------------------------
(***************************************************************************)
(* How the environment becomes settings: self-healing                      *)
(* (selfHealing/config.ts), telemetry (telemetryConfig.ts), the Redis      *)
(* client (redisClient.ts), the logger (logger.ts) and the privacy preset  *)
(* (artifactPrivacy.ts).                                                   *)
(*                                                                         *)
(* A raw value is a text in lower case and without blanks around it, or    *)
(* one blank; what the platform's conversions make of a text is given by   *)
(* ReadsAs.  A setting goes by the name of its variable.                   *)
(***************************************************************************)
EXTENDS Integers, Sequences, FiniteSets

CONSTANTS
    RawTexts,     \* the values variables are given
    ReadsAs       \* ReadsAs[t].number   {Number(t)} in hundredths, {} for NaN
                  \*           .leading  {parseInt(t)}, {} for NaN
                  \*           .entries  the parts between commas, "" for a blank one
                  \*           .service  {service.name among key=value pairs}, {} if malformed
                  \*           .scheme   of a URL, "" for anything else
                  \*           .name     it is a plain identifier

ASSUME SettingsAssumption ==
    \A text \in RawTexts :
        /\ text # "(not set)"
        /\ ReadsAs[text].number \subseteq Int /\ \A m, n \in ReadsAs[text].number : m = n
        /\ ReadsAs[text].leading \subseteq Int /\ \A m, n \in ReadsAs[text].leading : m = n

VARIABLES
    environment,  \* the variables that are set: a function from them to raw values
    settings      \* what their resolver made of them

settingVars == <<environment, settings>>

NotSet    == "(not set)"
BlankText == " "
Env(env, v) == IF v \in DOMAIN env THEN env[v] ELSE NotSet

\* normalizeOptional: blank is as good as not set.
Optional(text) == IF text \in {"", BlankText} THEN NotSet ELSE text
OrElse(text, default) == IF text = NotSet THEN default ELSE text

\* The readings of one variable: a value and whether the text was taken for it.
Taken(value)         == [value |-> value, code |-> "taken"]
Instead(code, value) == [value |-> value, code |-> code]
NotReadable              == [value |-> "(none)", code |-> "refused"]

TrueTokens  == {"1", "true", "yes", "on"}
FalseTokens == {"0", "false", "no", "off"}

-----------------------------------------------------------------------------
(* Self-healing: what cannot be read is replaced and reported.             *)

ReadEnum(text, supported, default) ==
    IF text \in {NotSet, ""} THEN Taken(default)
    ELSE IF text \in supported THEN Taken(text) ELSE Instead("invalid_enum", default)

ReadBoolean(text, default) ==
    IF text \in {NotSet, ""} THEN Taken(default)
    ELSE IF text \in TrueTokens \cup FalseTokens THEN Taken(text \in TrueTokens)
    ELSE Instead("invalid_boolean", default)

\* In hundredths.
ReadConfidence(text, default) ==
    IF text \in {NotSet, ""} THEN Taken(default)
    ELSE IF ReadsAs[text].number = {} THEN Instead("invalid_number", default)
    ELSE LET n == CHOOSE m \in ReadsAs[text].number : TRUE
         IN  IF n \in 0 .. 100 THEN Taken(n) ELSE Instead("out_of_range", default)

\* Mutant of ReadCount: too large a number is clamped in silence.
ReadCount_Bug(text, default, min, max) ==
    LET whole == IF text \in {NotSet, ""} THEN {} ELSE {m \in ReadsAs[text].number : m % 100 = 0} IN
    IF text \in {NotSet, ""} THEN Taken(default)
    ELSE IF whole = {} THEN Instead("invalid_number", default)
    ELSE LET n == (CHOOSE m \in whole : TRUE) \div 100
         IN  IF n < min THEN Instead("out_of_range", default)
             ELSE IF n > max THEN Taken(max) ELSE Taken(n)

\* parseBoundedPositiveInteger, parseBoundedNonNegativeInteger.
ReadCount(text, default, min, max) ==
    LET whole == IF text \in {NotSet, ""} THEN {} ELSE {m \in ReadsAs[text].number : m % 100 = 0} IN
    IF text \in {NotSet, ""} THEN Taken(default)
    ELSE IF whole = {} THEN Instead("invalid_number", default)
    ELSE LET n == (CHOOSE m \in whole : TRUE) \div 100
         IN  IF n < min THEN Instead("out_of_range", default)
             ELSE IF n > max THEN Instead("clamped", max) ELSE Taken(n)

\* parseDelimitedList.
Entries(text) == IF text \in {NotSet, ""} THEN {} ELSE ReadsAs[text].entries \ {""}

SupportedActions == {"navigate", "click", "type", "read", "wait", "screenshot", "close", "unknown"}
DefaultActions   == {"click", "type", "read", "wait", "screenshot"}

ReadActions(text) ==
    LET allowed == Entries(text) \cap SupportedActions IN
    IF Entries(text) = {} THEN Taken(DefaultActions)
    ELSE IF allowed = {} THEN Instead("unsupported_list_values", DefaultActions)
    ELSE IF allowed # Entries(text) THEN Instead("unsupported_list_values", allowed)
    ELSE Taken(allowed)

DefaultAttributes == {"data-testid", "data-test", "id", "name", "aria-label", "placeholder",
                      "title", "role", "type"}
ReadAttributes(text) == Taken(IF Entries(text) = {} THEN DefaultAttributes ELSE Entries(text))

HealingReadings(env) ==
    LET text(v) == Env(env, v)
        mode    == ReadEnum(text("SELF_HEAL_MODE"), {"off", "suggest", "guarded"}, "off")
        heals   == mode.value # "off"
    IN  [AURORAFLOW_CONFIG_STRICT  |-> ReadBoolean(text("AURORAFLOW_CONFIG_STRICT"), FALSE),
         SELF_HEAL_MODE            |-> mode,
         SELF_HEAL_MIN_CONFIDENCE  |-> ReadConfidence(text("SELF_HEAL_MIN_CONFIDENCE"), 92),
         SELF_HEAL_ALLOWED_ACTIONS |-> ReadActions(text("SELF_HEAL_ALLOWED_ACTIONS")),
         SELF_HEAL_ALLOWED_DOMAINS |-> Taken(Entries(text("SELF_HEAL_ALLOWED_DOMAINS"))),
         SELF_HEAL_SAT_ENABLED     |-> ReadBoolean(text("SELF_HEAL_SAT_ENABLED"), heals),
         SELF_HEAL_SAT_CAPTURE_DOM |-> ReadBoolean(text("SELF_HEAL_SAT_CAPTURE_DOM"), heals),
         SELF_HEAL_MAX_DOM_NODES   |-> ReadCount(text("SELF_HEAL_MAX_DOM_NODES"), 500, 1, 5000),
         SELF_HEAL_MAX_CANDIDATES  |-> ReadCount(text("SELF_HEAL_MAX_CANDIDATES"), 10, 1, 50),
         SELF_HEAL_MAX_TEXT_LENGTH |-> ReadCount(text("SELF_HEAL_MAX_TEXT_LENGTH"), 120, 1, 500),
         SELF_HEAL_ALLOWED_ATTRIBUTES |-> ReadAttributes(text("SELF_HEAL_ALLOWED_ATTRIBUTES")),
         SELF_HEAL_REGISTRY_MODE   |-> ReadEnum(text("SELF_HEAL_REGISTRY_MODE"),
                                                {"off", "read", "write_pending"}, "read"),
         SELF_HEAL_PROMOTION_MODE  |-> ReadEnum(text("SELF_HEAL_PROMOTION_MODE"),
                                                {"manual", "ci_acknowledged"}, "manual"),
         SELF_HEAL_RUN_BUDGET_MODE |-> ReadEnum(text("SELF_HEAL_RUN_BUDGET_MODE"),
                                                {"warning_only", "enforce"}, "warning_only"),
         SELF_HEAL_RUN_BUDGET_MAX_HEALING_ATTEMPTS |->
             ReadCount(text("SELF_HEAL_RUN_BUDGET_MAX_HEALING_ATTEMPTS"), 25, 0, 10000),
         SELF_HEAL_RUN_BUDGET_MAX_FAILURE_ARTIFACTS |->
             ReadCount(text("SELF_HEAL_RUN_BUDGET_MAX_FAILURE_ARTIFACTS"), 50, 0, 10000)]

\* No settings at all: the resolver threw.
Thrown(diagnostics) == [values |-> <<>>, diagnostics |-> diagnostics, threw |-> TRUE]

\* resolveSelfHealingConfig; an explicit option goes before the variable's strictness.
ResolveSelfHealingConfig(env, strictOption) ==
    LET r           == HealingReadings(env)
        diagnostics == {<<v, r[v].code, r[v].value>> : v \in {w \in DOMAIN r : r[w].code # "taken"}}
        strict      == IF strictOption = NotSet THEN r.AURORAFLOW_CONFIG_STRICT.value
                       ELSE strictOption = "true"
        values      == [v \in DOMAIN r |-> r[v].value]
    IN  IF diagnostics # {} /\ strict THEN Thrown(diagnostics)
        ELSE [values |-> [values EXCEPT !.SELF_HEAL_SAT_CAPTURE_DOM =
                                            @ /\ values.SELF_HEAL_SAT_ENABLED],
              diagnostics |-> diagnostics, threw |-> FALSE]

\* resolveArtifactPrivacyPolicy.
ResolveArtifactPrivacyPolicy(env) ==
    LET preset == ReadEnum(OrElse(Optional(Env(env, "AURORAFLOW_ARTIFACT_PRIVACY_PRESET")), ""),
                           {"compatible", "sensitive"}, "compatible")
    IN  [values |-> [AURORAFLOW_ARTIFACT_PRIVACY_PRESET |-> preset.value],
         diagnostics |-> IF preset.code = "taken" THEN {}
                         ELSE {<<"AURORAFLOW_ARTIFACT_PRIVACY_PRESET", preset.code, preset.value>>},
         threw |-> FALSE]

-----------------------------------------------------------------------------
(* Telemetry, Redis and logger: what cannot be read is refused.            *)

DemandBoolean(text, default) ==
    IF Optional(text) = NotSet THEN Taken(default)
    ELSE IF text \in TrueTokens \cup {"y"} THEN Taken(TRUE)
    ELSE IF text \in FalseTokens \cup {"n"} THEN Taken(FALSE)
    ELSE NotReadable

DemandInteger(text, default, min, max) ==
    IF Optional(text) = NotSet THEN Taken(default)
    ELSE LET n == ReadsAs[text].leading IN
         IF n # {} /\ n \subseteq min .. max THEN Taken(CHOOSE m \in n : TRUE) ELSE NotReadable

DemandEnum(text, supported, default) ==
    IF Optional(text) = NotSet THEN Taken(default)
    ELSE IF text \in supported THEN Taken(text) ELSE NotReadable

\* normalizeIdentifier.
DemandName(text, default) ==
    LET name == OrElse(Optional(text), default) IN
    IF name = default \/ ReadsAs[name].name THEN Taken(name) ELSE NotReadable

\* validateOtlpEndpoint, parseRedisUrl.
DemandUrl(text, schemes) ==
    IF Optional(text) = NotSet \/ ReadsAs[text].scheme \in schemes THEN Taken(Optional(text))
    ELSE NotReadable

\* The first of two variables that is set at all (`??`): an empty one counts.
FirstSet(env, v, w) == IF v \in DOMAIN env THEN env[v] ELSE Env(env, w)
\* The first that is more than blank.
FirstGiven(env, variables) ==
    LET given == SelectSeq(variables, LAMBDA v : Optional(Env(env, v)) # NotSet)
    IN  IF given = <<>> THEN NotSet ELSE env[Head(given)]

\* The service the resource attributes name; the version and the others are read the same ways.
NamedService(env) ==
    LET attributes == Optional(Env(env, "OTEL_RESOURCE_ATTRIBUTES"))
    IN  IF attributes = NotSet THEN {NotSet} ELSE ReadsAs[attributes].service

DemandService(env) ==
    LET set == FirstSet(env, "AURORAFLOW_OBSERVABILITY_SERVICE_NAME", "OTEL_SERVICE_NAME")
    IN  DemandName(IF set = NotSet /\ NamedService(env) # {}
                   THEN CHOOSE n \in NamedService(env) : TRUE ELSE set, "auroraflow")

\* resolveEnvironment: given, or guessed from the other variables.
DemandEnvironment(env) ==
    LET given == DemandEnum(Env(env, "AURORAFLOW_OBSERVABILITY_ENVIRONMENT"),
                            {"local", "ci", "staging", "production"}, NotSet)
        ci    == DemandBoolean(Env(env, "CI"), FALSE)
    IN  IF given.value # NotSet THEN given
        ELSE IF ci.code = "refused" THEN NotReadable
        ELSE IF ci.value THEN Taken("ci")
        ELSE IF Env(env, "NODE_ENV") = "production" THEN Taken("production") ELSE Taken("local")

TelemetryReadings(env) ==
    LET text(v) == Env(env, v)
    IN  [OTEL_EXPORTER_OTLP_ENDPOINT |->
             DemandUrl(FirstGiven(env, <<"OTEL_EXPORTER_OTLP_ENDPOINT",
                                         "OTEL_EXPORTER_OTLP_TRACES_ENDPOINT",
                                         "OTEL_EXPORTER_OTLP_METRICS_ENDPOINT">>),
                       {"http", "https"}),
         AURORAFLOW_RUN_ID |->
             Taken(OrElse(FirstGiven(env, <<"AURORAFLOW_RUN_ID", "GITHUB_RUN_ID">>), "local-run")),
         GITHUB_REF_NAME |->
             Taken(Optional(FirstSet(env, "GITHUB_HEAD_REF", "GITHUB_REF_NAME"))),
         OTEL_RESOURCE_ATTRIBUTES |->
             IF NamedService(env) = {} THEN NotReadable
             ELSE Taken(Optional(text("OTEL_RESOURCE_ATTRIBUTES"))),
         AURORAFLOW_OBSERVABILITY_SERVICE_NAME |-> DemandService(env),
         AURORAFLOW_OBSERVABILITY_ENVIRONMENT  |-> DemandEnvironment(env),
         AURORAFLOW_OBSERVABILITY_ENABLED |->
             DemandBoolean(text("AURORAFLOW_OBSERVABILITY_ENABLED"), FALSE),
         AURORAFLOW_OBSERVABILITY_STRICT |->
             DemandBoolean(text("AURORAFLOW_OBSERVABILITY_STRICT"), FALSE),
         AURORAFLOW_OBSERVABILITY_EXPORT_RAW_SELECTORS |->
             DemandBoolean(text("AURORAFLOW_OBSERVABILITY_EXPORT_RAW_SELECTORS"), FALSE),
         AURORAFLOW_OBSERVABILITY_METRIC_EXPORT_INTERVAL_MS |->
             DemandInteger(text("AURORAFLOW_OBSERVABILITY_METRIC_EXPORT_INTERVAL_MS"),
                           10000, 1000, 300000),
         AURORAFLOW_OBSERVABILITY_SHUTDOWN_TIMEOUT_MS |->
             DemandInteger(text("AURORAFLOW_OBSERVABILITY_SHUTDOWN_TIMEOUT_MS"),
                           3000, 100, 120000)]

\* Resolved unless one reading was refused.
Demanded(r) ==
    IF \E v \in DOMAIN r : r[v].code = "refused" THEN Thrown({})
    ELSE [values |-> [v \in DOMAIN r |-> r[v].value], diagnostics |-> {}, threw |-> FALSE]

RedisReadings(env) ==
    LET text(v) == Env(env, v) IN
    [AURORAFLOW_REDIS_URL  |-> DemandUrl(text("AURORAFLOW_REDIS_URL"), {"redis", "rediss"}),
     AURORAFLOW_REDIS_HOST |-> Taken(OrElse(Optional(text("AURORAFLOW_REDIS_HOST")), "127.0.0.1")),
     AURORAFLOW_REDIS_PORT |-> DemandInteger(text("AURORAFLOW_REDIS_PORT"), 6379, 1, 65535),
     AURORAFLOW_REDIS_DB   |-> DemandInteger(text("AURORAFLOW_REDIS_DB"), 0, 0, 16),
     AURORAFLOW_REDIS_TLS  |-> DemandBoolean(text("AURORAFLOW_REDIS_TLS"), FALSE),
     AURORAFLOW_REDIS_CONNECT_TIMEOUT_MS |->
         DemandInteger(text("AURORAFLOW_REDIS_CONNECT_TIMEOUT_MS"), 5000, 100, 120000),
     AURORAFLOW_REDIS_MAX_RETRIES |->
         DemandInteger(text("AURORAFLOW_REDIS_MAX_RETRIES"), 3, 0, 20),
     AURORAFLOW_REDIS_BASE_BACKOFF_MS |->
         DemandInteger(text("AURORAFLOW_REDIS_BASE_BACKOFF_MS"), 50, 1, 10000),
     AURORAFLOW_REDIS_MAX_BACKOFF_MS |->
         DemandInteger(text("AURORAFLOW_REDIS_MAX_BACKOFF_MS"), 2000, 1, 120000)]

\* resolveRedisRuntimeConfig; the credentials and the key prefix are left out.
ResolveRedisRuntimeConfig(env) ==
    LET config == Demanded(RedisReadings(env)) IN
    IF ~config.threw /\ config.values.AURORAFLOW_REDIS_MAX_BACKOFF_MS
                            < config.values.AURORAFLOW_REDIS_BASE_BACKOFF_MS
    THEN Thrown({}) ELSE config

\* buildClientOptions: a URL goes before host, port and database.
ConnectsTo(c) ==
    IF c.AURORAFLOW_REDIS_URL # NotSet THEN <<c.AURORAFLOW_REDIS_URL>>
    ELSE <<c.AURORAFLOW_REDIS_HOST, c.AURORAFLOW_REDIS_PORT, c.AURORAFLOW_REDIS_DB>>

Least(a, b) == IF a <= b THEN a ELSE b

\* computeBackoffDelay: the least and the greatest wait before retry `attempt`.
BackoffDelay(c, attempt) ==
    LET base   == c.AURORAFLOW_REDIS_BASE_BACKOFF_MS
        wait   == Least(base * 2 ^ (attempt - 1), c.AURORAFLOW_REDIS_MAX_BACKOFF_MS)
        jitter == IF base \div 2 > 1 THEN base \div 2 ELSE 1
    IN  <<wait, wait + jitter - 1>>

LoggerReadings(env) ==
    LET text(v) == Env(env, v)
        paths   == Optional(text("AURORAFLOW_LOG_REDACT_PATHS"))
    IN  [AURORAFLOW_LOG_LEVEL |->
             DemandEnum(FirstSet(env, "AURORAFLOW_LOG_LEVEL", "LOG_LEVEL"),
                        {"trace", "debug", "info", "warn", "error", "fatal", "silent"}, "info"),
         AURORAFLOW_LOG_DESTINATION |->
             DemandEnum(text("AURORAFLOW_LOG_DESTINATION"), {"both", "console", "file", "silent"},
                        IF text("NODE_ENV") = "production" THEN "file" ELSE "both"),
         AURORAFLOW_LOG_REDACT_ENABLED |->
             DemandBoolean(text("AURORAFLOW_LOG_REDACT_ENABLED"), TRUE),
         AURORAFLOW_LOG_REDACT_PATHS |->
             IF paths = NotSet THEN Taken({"(secrets)"})
             ELSE IF "" \in ReadsAs[paths].entries THEN NotReadable ELSE Taken(ReadsAs[paths].entries)]

\* buildTransportTargets.
TransportTargets(c) ==
    (IF c.AURORAFLOW_LOG_DESTINATION \in {"both", "console"} THEN {"console"} ELSE {}) \cup
    (IF c.AURORAFLOW_LOG_DESTINATION \in {"both", "file"} THEN {"file"} ELSE {})

-----------------------------------------------------------------------------

Unresolved == [of |-> "none", strictOption |-> NotSet, made |-> Thrown({})]

SettingsInit == environment = <<>> /\ settings = Unresolved

\* A resolver is called in an environment that sets one variable, or some that decide
\* together or on one another.
Resolve(resolver, groups, strictOptions, Result(_, _)) ==
    /\ settings.of = "none"
    /\ \E variables \in groups : environment' \in [variables -> RawTexts]
    /\ \E option \in strictOptions :
          settings' = [of |-> resolver, strictOption |-> option,
                       made |-> Result(environment', option)]

Alone(variables) == {{v} : v \in variables}
HealingGroups ==
    {{v, "AURORAFLOW_CONFIG_STRICT"} : v \in DOMAIN HealingReadings(<<>>)} \cup
    {{"SELF_HEAL_MODE", "SELF_HEAL_SAT_ENABLED", "SELF_HEAL_SAT_CAPTURE_DOM"}}
TelemetryGroups ==
    Alone(DOMAIN TelemetryReadings(<<>>)) \cup
    {{"AURORAFLOW_OBSERVABILITY_SERVICE_NAME", "OTEL_SERVICE_NAME"},
     {"OTEL_SERVICE_NAME", "OTEL_RESOURCE_ATTRIBUTES"},
     {"AURORAFLOW_OBSERVABILITY_ENVIRONMENT", "CI"}, {"CI", "NODE_ENV"},
     {"OTEL_EXPORTER_OTLP_ENDPOINT", "OTEL_EXPORTER_OTLP_TRACES_ENDPOINT"},
     {"OTEL_EXPORTER_OTLP_TRACES_ENDPOINT", "OTEL_EXPORTER_OTLP_METRICS_ENDPOINT"},
     {"AURORAFLOW_RUN_ID", "GITHUB_RUN_ID"}, {"GITHUB_HEAD_REF", "GITHUB_REF_NAME"}}
RedisGroups ==
    Alone(DOMAIN RedisReadings(<<>>)) \cup
    {{"AURORAFLOW_REDIS_BASE_BACKOFF_MS", "AURORAFLOW_REDIS_MAX_BACKOFF_MS"},
     {"AURORAFLOW_REDIS_URL", "AURORAFLOW_REDIS_HOST"}}
LoggerGroups ==
    Alone(DOMAIN LoggerReadings(<<>>)) \cup
    {{"AURORAFLOW_LOG_LEVEL", "LOG_LEVEL"}, {"AURORAFLOW_LOG_DESTINATION", "NODE_ENV"}}

ResolveHealing == Resolve("healing", HealingGroups, {NotSet, "true", "false"},
                          ResolveSelfHealingConfig)
ResolvePrivacy == Resolve("privacy", Alone({"AURORAFLOW_ARTIFACT_PRIVACY_PRESET"}), {NotSet},
                          LAMBDA env, option : ResolveArtifactPrivacyPolicy(env))
ResolveTelemetry == Resolve("telemetry", TelemetryGroups, {NotSet},
                            LAMBDA env, option : Demanded(TelemetryReadings(env)))
ResolveRedis == Resolve("redis", RedisGroups, {NotSet},
                        LAMBDA env, option : ResolveRedisRuntimeConfig(env))
ResolveLogger == Resolve("logger", LoggerGroups, {NotSet},
                         LAMBDA env, option : Demanded(LoggerReadings(env)))

SettingsNext ==
    ResolveHealing \/ ResolvePrivacy \/ ResolveTelemetry \/ ResolveRedis \/ ResolveLogger

-----------------------------------------------------------------------------
(* What configuration.md says the variables mean.                          *)

Bounds ==
    [SELF_HEAL_MAX_DOM_NODES |-> <<1, 5000>>, SELF_HEAL_MAX_CANDIDATES |-> <<1, 50>>,
     SELF_HEAL_MAX_TEXT_LENGTH |-> <<1, 500>>,
     SELF_HEAL_RUN_BUDGET_MAX_HEALING_ATTEMPTS |-> <<0, 10000>>,
     SELF_HEAL_RUN_BUDGET_MAX_FAILURE_ARTIFACTS |-> <<0, 10000>>,
     AURORAFLOW_OBSERVABILITY_METRIC_EXPORT_INTERVAL_MS |-> <<1000, 300000>>,
     AURORAFLOW_OBSERVABILITY_SHUTDOWN_TIMEOUT_MS |-> <<100, 120000>>,
     AURORAFLOW_REDIS_PORT |-> <<1, 65535>>, AURORAFLOW_REDIS_DB |-> <<0, 16>>,
     AURORAFLOW_REDIS_CONNECT_TIMEOUT_MS |-> <<100, 120000>>,
     AURORAFLOW_REDIS_MAX_RETRIES |-> <<0, 20>>,
     AURORAFLOW_REDIS_BASE_BACKOFF_MS |-> <<1, 10000>>,
     AURORAFLOW_REDIS_MAX_BACKOFF_MS |-> <<1, 120000>>]
Switches ==
    {"AURORAFLOW_CONFIG_STRICT", "SELF_HEAL_SAT_ENABLED", "SELF_HEAL_SAT_CAPTURE_DOM",
     "AURORAFLOW_OBSERVABILITY_ENABLED", "AURORAFLOW_OBSERVABILITY_STRICT",
     "AURORAFLOW_OBSERVABILITY_EXPORT_RAW_SELECTORS", "AURORAFLOW_REDIS_TLS",
     "AURORAFLOW_LOG_REDACT_ENABLED"}
OneOf ==
    [SELF_HEAL_MODE |-> {"off", "suggest", "guarded"},
     SELF_HEAL_REGISTRY_MODE |-> {"off", "read", "write_pending"},
     SELF_HEAL_PROMOTION_MODE |-> {"manual", "ci_acknowledged"},
     SELF_HEAL_RUN_BUDGET_MODE |-> {"warning_only", "enforce"},
     AURORAFLOW_ARTIFACT_PRIVACY_PRESET |-> {"compatible", "sensitive"},
     AURORAFLOW_OBSERVABILITY_ENVIRONMENT |-> {"local", "ci", "staging", "production"},
     AURORAFLOW_LOG_DESTINATION |-> {"both", "console", "file", "silent"}]
Documented == (DOMAIN Bounds) \cup Switches \cup DOMAIN OneOf

InDomain(v, value) ==
    IF v \in DOMAIN Bounds THEN value \in Bounds[v][1] .. Bounds[v][2]
    ELSE IF v \in DOMAIN OneOf THEN value \in OneOf[v] ELSE value \in BOOLEAN

\* The value a text asks for, if the variable has it.
Asked(v, text) ==
    IF v \in DOMAIN Bounds
    THEN {m \div 100 : m \in {n \in ReadsAs[text].number :
                                 n % 100 = 0 /\ n \div 100 \in Bounds[v][1] .. Bounds[v][2]}}
    ELSE IF v \in DOMAIN OneOf THEN {text} \cap OneOf[v]
    ELSE (IF text \in {"1", "true", "yes", "on"} THEN {TRUE} ELSE {}) \cup
         (IF text \in {"0", "false", "no", "off"} THEN {FALSE} ELSE {})

\* Variables given a text that says the same to every reader: no blank, no number that
\* parseInt reads otherwise than Number does, and none of the short forms of yes and no.
PlainText(text) ==
    /\ text \notin {"", BlankText, "y", "n"}
    /\ {100 * n : n \in ReadsAs[text].leading} = ReadsAs[text].number
PlainlySet == {v \in Documented \cap DOMAIN environment : PlainText(environment[v])}

\* A diagnostic, or the refusal of everything, says that a text was not understood.
Announced(v) == settings.made.threw \/ \E d \in settings.made.diagnostics : d[1] = v

(***************************************************************************)
(* "Invalid SELF_HEAL_* values are observable instead of silently          *)
(* defaulting", and so are those of telemetry, Redis and the logger: a     *)
(* value that is understood is the one in effect, one that is not is       *)
(* announced with the value in its place; every setting in effect is one   *)
(* its variable may have, whichever the mix of variables; strictness alone *)
(* decides whether diagnostics throw; and settings that depend on one      *)
(* another agree: DOM capture needs SAT, the Redis waits grow from the     *)
(* base delay to the cap (with less than half the base delay on top of     *)
(* it), and a logger has no target only if it is silent.                   *)
(***************************************************************************)
SettingsAreWhatWasAsked ==
    LET s == settings.made
        c == s.values
    IN  settings.of # "none" =>
        /\ ~s.threw =>
              /\ \A v \in Documented \cap DOMAIN c : InDomain(v, c[v])
              /\ \A v \in PlainlySet \cap DOMAIN c :
                    IF Asked(v, environment[v]) = {} THEN Announced(v)
                    ELSE \/ c[v] \in Asked(v, environment[v])
                         \/ v = "SELF_HEAL_SAT_CAPTURE_DOM" /\ ~c.SELF_HEAL_SAT_ENABLED
              /\ \A d \in s.diagnostics :
                    d[3] = c[d[1]] \/ d[1] = "SELF_HEAL_SAT_CAPTURE_DOM"
        /\ \A d \in s.diagnostics :
              d[1] \in PlainlySet => Asked(d[1], environment[d[1]]) = {}
        /\ settings.of = "healing" =>
              /\ s.threw <=> /\ s.diagnostics # {}
                             /\ \/ settings.strictOption = "true"
                                \/ /\ settings.strictOption = NotSet
                                   /\ Env(environment, "AURORAFLOW_CONFIG_STRICT") \in TrueTokens
              /\ ~s.threw => (c.SELF_HEAL_SAT_CAPTURE_DOM => c.SELF_HEAL_SAT_ENABLED)
        /\ settings.of = "redis" /\ ~s.threw =>
              /\ Len(ConnectsTo(c)) = 1 <=> c.AURORAFLOW_REDIS_URL # NotSet
              /\ BackoffDelay(c, 1)[1] = c.AURORAFLOW_REDIS_BASE_BACKOFF_MS
              /\ \A attempt \in 1 .. 4 :
                    /\ BackoffDelay(c, attempt)[1] <= BackoffDelay(c, attempt + 1)[1]
                    /\ BackoffDelay(c, attempt)[2] <=
                          c.AURORAFLOW_REDIS_MAX_BACKOFF_MS + c.AURORAFLOW_REDIS_BASE_BACKOFF_MS \div 2
        /\ settings.of = "logger" /\ ~s.threw =>
              (TransportTargets(c) = {} <=> c.AURORAFLOW_LOG_DESTINATION = "silent")
=============================================================================

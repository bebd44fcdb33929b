--------------------------- MODULE ReleaseControls ---------------------------
(***************************************************************************)
(* The repository settings a release depends on, and the two scripts that  *)
(* know them: configure-github-release-controls.mjs writes and verifies    *)
(* them one request at a time, check-release-readiness.mjs reads them in   *)
(* the release workflow.  A maintainer may change a setting by hand at any *)
(* time.  GitHub is external and modelled as a store of these settings.    *)
(***************************************************************************)
EXTENDS Naturals, FiniteSets

CONSTANTS
  User,       \* accounts
  Writers,    \* accounts with write, maintain or admin permission
  None,       \* no environment, no commit, no digest
  Setups,     \* initial settings
  Wanted,     \* values of --npm-reviewers to try
  MaxDrift,   \* bound on the changes made by hand
  MaxFaults   \* bound on the requests that fail

ASSUME UserAssumption ==
  /\ Writers \subseteq User /\ {None, "missing", "installation"} \cap User = {}
  /\ Wanted \subseteq SUBSET User
  /\ MaxDrift \in Nat /\ MaxFaults \in Nat

VARIABLES
  controls,  \* the settings
  setup,     \* the configuration script: its step and what it has read
  drift,     \* changes made by hand so far
  late,      \* one of them came when the script had read that setting for the last time (history)
  faults     \* failed requests so far

controlVars == <<controls, setup, drift, late, faults>>

Environment == [reviewers : SUBSET User, guarded : BOOLEAN]

\* The token is the secret RELEASE_PREFLIGHT_TOKEN: the account whose personal token it
\* is; the token of an app's installation names none.
Settings ==
  [token : User \cup {"missing", "installation"},
   features : SUBSET {"alerts", "reporting", "scanning"},
   fixes : {"off", "paused", "on"},
   env : Environment \cup {None},
   policies : SUBSET {"tag", "branch"},
   rules : [{"main", "tag"} -> {"missing", "wrong", "right"}]]

ASSUME SetupsAssumption == Setups \subseteq Settings

Step == {"idle", "failed", "alerts", "reporting", "security", "environment", "approvers", "policy",
         "post", "exact", "rulesets", "persisted", "done"}

NoSetup == [at |-> "idle", operator |-> None, reviewers |-> {}, seen |-> None]

ControlsInit ==
  /\ controls \in Setups
  /\ setup = NoSetup
  /\ drift = 0 /\ late = FALSE /\ faults = 0

-----------------------------------------------------------------------------
(* What both scripts assert of the settings *)

\* prevent_self_review leaves nobody to approve when the only reviewers are those that
\* count as oneself, and every other reviewer must be able to approve.
CanApprove(env, selves) ==
  /\ env.reviewers \ selves # {}
  /\ env.reviewers \ selves \subseteq Writers

\* assertNpmDeploymentPolicies: exactly the release tags.
ExactPolicy(c) == c.policies = {"tag"}

\* environmentStatus and assertNpmEnvironmentStatus
EnvironmentGuarded(c) == c.env # None /\ c.env.reviewers # {} /\ c.env.guarded

\* assertMainRuleset and assertTagRuleset, on exactly the two rulesets.
RulesetsRight(c) == c.rules = [n \in {"main", "tag"} |-> "right"]

\* assertRepositorySecurityAndAnalysis, assertDependabotAutomatedSecurityFixes
SecurityOn(c) == "scanning" \in c.features /\ c.fixes = "on"

\* Mutant: that a reviewer may be the one who pushed the tag is not looked at.
ReadySelfReview(c, actor) ==
  /\ c.token # "missing"
  /\ {"alerts", "reporting"} \subseteq c.features
  /\ SecurityOn(c) /\ RulesetsRight(c) /\ EnvironmentGuarded(c) /\ ExactPolicy(c)

\* collectGitHubRepositoryReadiness, for the account that pushed the tag: it asks for all
\* of it and reports every failure.  The pusher and the owner of the token it asks with
\* both count as oneself (isSelfReviewDeadlockReviewer).
SettingsReady(c, actor) ==
  /\ c.token # "missing"
  /\ {"alerts", "reporting"} \subseteq c.features
  /\ SecurityOn(c)
  /\ RulesetsRight(c)
  /\ EnvironmentGuarded(c) /\ CanApprove(c.env, {actor, c.token})
  /\ ExactPolicy(c)

-----------------------------------------------------------------------------
(* configure-github-release-controls.mjs --apply *)

At(step) == setup.at = step
To(step) == setup' = [setup EXCEPT !.at = step]
Throw == setup' = [NoSetup EXCEPT !.at = "failed"]
Report == setup' = [NoSetup EXCEPT !.at = "done", !.operator = setup.operator]
NoFault == UNCHANGED <<drift, late, faults>>

\* The script reads everything before it writes anything.
ConfigureReads(operator, reviewers) ==
  /\ At("idle") \/ At("failed")
  /\ reviewers \subseteq Writers /\ reviewers # {operator}
  /\ setup' = [at |-> "alerts", operator |-> operator, reviewers |-> reviewers, seen |-> controls]
  /\ late' = FALSE
  /\ UNCHANGED <<controls, drift, faults>>

\* ensureDependencyVulnerabilityAlerts: written when it was off, and read again.
EnsureAlerts ==
  /\ At("alerts")
  /\ controls' = [controls EXCEPT !.features =
       IF "alerts" \in setup.seen.features THEN @ ELSE @ \cup {"alerts"}]
  /\ IF "alerts" \in controls'.features THEN To("reporting") ELSE Throw
  /\ NoFault

\* ensurePrivateVulnerabilityReporting: when it was on, it is not read again.
EnsureReporting ==
  /\ At("reporting") /\ To("security")
  /\ controls' = [controls EXCEPT !.features =
       IF "reporting" \in setup.seen.features THEN @ ELSE @ \cup {"reporting"}]
  /\ NoFault

\* ensureRepositorySecurity: fixes that are paused count as enabled when read, are not
\* written and then refused.
EnsureSecurity ==
  /\ At("security")
  /\ controls' = [controls EXCEPT
       !.features = IF "scanning" \in setup.seen.features THEN @ ELSE @ \cup {"scanning"},
       !.fixes = IF setup.seen.fixes = "off" THEN "on" ELSE @]
  /\ IF SecurityOn(controls') THEN To("environment") ELSE Throw
  /\ NoFault

\* PUT of the environment, when reviewers were given, and the checks of what came back,
\* or else of what was there when the script started.
ConfigureEnvironment ==
  /\ At("environment")
  /\ controls' = IF setup.reviewers = {} THEN controls
                 ELSE [controls EXCEPT !.env = [reviewers |-> setup.reviewers, guarded |-> TRUE]]
  /\ LET answer == IF setup.reviewers = {} THEN setup.seen ELSE controls' IN
     IF EnvironmentGuarded(answer) /\ answer.env.reviewers # {setup.operator}
     THEN To("approvers") ELSE Throw
  /\ NoFault

\* The environment is read again, and its reviewers' permissions with it.
ConfigureApprovers ==
  /\ At("approvers")
  /\ IF EnvironmentGuarded(controls) /\ CanApprove(controls.env, {setup.operator})
     THEN To("policy") ELSE Throw
  /\ UNCHANGED controls /\ NoFault

\* ensureNpmDeploymentPolicy: the other policies are deleted, ...
EnsurePolicy ==
  /\ At("policy")
  /\ controls' = [controls EXCEPT !.policies = @ \cap {"tag"}]
  /\ To(IF "tag" \in controls.policies THEN "exact" ELSE "post")
  /\ NoFault

\* ... the one of the release tags is made if it was not there, ...
PostPolicy ==
  /\ At("post") /\ To("exact")
  /\ controls' = [controls EXCEPT !.policies = @ \cup {"tag"}]
  /\ NoFault

\* ... and all are read again.
ConfigureExact ==
  /\ At("exact")
  /\ IF ExactPolicy(controls) THEN To("rulesets") ELSE Throw
  /\ UNCHANGED controls /\ NoFault

\* PUT what was there when the script started, POST what was not.  A ruleset that came
\* or went meanwhile makes a duplicate or a request that fails.
ConfigureRulesets ==
  /\ At("rulesets")
  /\ IF \A n \in {"main", "tag"} :
          (setup.seen.rules[n] = "missing") = (controls.rules[n] = "missing")
     THEN /\ controls' = [controls EXCEPT !.rules = [n \in {"main", "tag"} |-> "right"]]
          /\ To("persisted")
     ELSE UNCHANGED controls /\ Throw
  /\ NoFault

\* Mutant: the rulesets are not read again.
PersistedUnread ==
  /\ At("persisted") /\ Report
  /\ UNCHANGED controls /\ NoFault

\* assertPersistedRulesets, and the script reports success.
ConfigurePersisted ==
  /\ At("persisted")
  /\ IF RulesetsRight(controls) THEN Report ELSE Throw
  /\ UNCHANGED controls /\ NoFault

\* A request fails, or its answer is lost: the script throws where it is.
ConfigureFails ==
  /\ setup.at \notin {"idle", "failed", "done"} /\ faults < MaxFaults
  /\ Throw /\ faults' = faults + 1
  /\ UNCHANGED <<controls, drift, late>>

Configure ==
  \/ \E u \in User, rs \in Wanted : ConfigureReads(u, rs)
  \/ EnsureAlerts \/ EnsureReporting \/ EnsureSecurity \/ ConfigureEnvironment
  \/ ConfigureApprovers \/ EnsurePolicy \/ PostPolicy \/ ConfigureExact \/ ConfigureRulesets
  \/ ConfigurePersisted \/ ConfigureFails

\* The steps at which the script has yet to read a setting, in the order of its steps: a
\* feature that it saw enabled it may not read again.
Before == [alerts |-> {"alerts"}, reporting |-> {"alerts", "reporting"},
           scanning |-> {"alerts", "reporting", "security"},
           reviewers |-> {"alerts", "reporting", "security", "environment", "approvers"},
           policies |-> Step \ {"idle", "failed", "rulesets", "persisted", "done"},
           rules |-> Step \ {"idle", "failed", "done"}]

Rereads(what) ==
  /\ setup.at \in Before[what]
  /\ what = "reporting" => "reporting" \notin setup.seen.features

\* Someone with the rights changes one setting by hand.
DriftOf(what) ==
  \/ what = "rules" /\ controls' = [controls EXCEPT !.rules["tag"] = "wrong"]
  \/ what = "policies" /\ controls' = [controls EXCEPT !.policies = @ \cup {"branch"}]
  \/ /\ what = "reviewers" /\ controls.env # None
     /\ \E u \in controls.env.reviewers :
          controls' = [controls EXCEPT !.env.reviewers = @ \ {u}]
  \/ /\ what \in {"alerts", "reporting", "scanning"}
     /\ controls' = [controls EXCEPT !.features = @ \ {what}]

Drift ==
  /\ drift < MaxDrift /\ drift' = drift + 1
  /\ \E what \in DOMAIN Before : DriftOf(what) /\ late' = (late \/ ~Rereads(what))
  /\ controls' # controls
  /\ UNCHANGED <<setup, faults>>

ControlsTypeOK ==
  /\ controls \in Settings
  /\ setup \in [at : Step, operator : User \cup {None}, reviewers : SUBSET User, seen : Settings \cup {None}]
  /\ drift \in 0 .. MaxDrift /\ late \in BOOLEAN /\ faults \in 0 .. MaxFaults
=============================================================================

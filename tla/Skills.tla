-------------------------------- MODULE Skills -------------------------------
(***************************************************************************)
(* The planning of the delivery of reviews (delivery_planning_agent.py,    *)
(* subflows/risk_analysis.py) over the skills (skills/): a search of the   *)
(* risk catalog, plans made from the requirement, prompts made from the    *)
(* plans.  All reviews share one executor, which keeps what a skill        *)
(* returned for a while, in the process or in a SQLite file.               *)
(*                                                                         *)
(* A skill but the search is a call of the model (llm_structured_call),    *)
(* tried again when the answer does not fit the schema.  One step is what  *)
(* runs between two awaits.  What a skill is given is the requirement and, *)
(* for a prompt, the plans; what the model returns is a number.  Bounds:   *)
(* MaxClock and MaxRestarts.                                                *)
(***************************************************************************)
EXTENDS Naturals, FiniteSets

CONSTANTS
  Plannings,      \* reviews that plan
  Demands,        \* requirements
  Answers,        \* what the model can return for one prompt, numbers
  PlanSkills,     \* implementation.plan, test.plan.generate
  PromptSkills,   \* codex.prompt.generate, claude_code.prompt.generate
  Catalogs,       \* what the catalog file can hold, numbers
  TTL,            \* cache_ttl_sec, in ticks
  MaxClock,
  MaxRestarts

ASSUME SkillsAssumption ==
  /\ TTL \in Nat \ {0} /\ Answers \subseteq Nat \ {0} /\ Catalogs \subseteq Nat \ {0}
  /\ MaxClock \in Nat /\ MaxRestarts \in Nat
  /\ PlanSkills \cap PromptSkills = {} /\ "risk_catalog.search" \notin PlanSkills \cup PromptSkills

VARIABLES
  toolCalls,      \* the provider of the model supports tools
  backend,        \* SKILLS_CACHE_BACKEND
  clock,
  version,        \* config_version of the skills in the program that runs
  rows,           \* the cache
  catalog,        \* data/risk_catalog.json, or NoOutput when it cannot be read
  loaded,         \* what the process has read of it (lru_cache)
  planning,       \* of each review: where it is and what its skills returned
  restarts

skillVars == <<toolCalls, backend, clock, version, rows, catalog, loaded, planning,
               restarts>>

-----------------------------------------------------------------------------
NoOutput == 0
Search == "risk_catalog.search"
Skills == {Search} \cup PlanSkills \cup PromptSkills

\* An execution: the output, and what the handler was given that made it (history).
Call(state, out, of) == [state |-> state, out |-> out, of |-> of]
NotCalled == Call("none", NoOutput, << >>)
Asking    == Call("asked", NoOutput, << >>)
Degraded  == Call("degraded", NoOutput, << >>)

NoPlanning == [stage |-> "idle", demand |-> NoOutput, version |-> 0,
               calls |-> [s \in Skills |-> NotCalled]]

Backends == {"memory", "sqlite"}

SkillsInit ==
  /\ toolCalls \in BOOLEAN /\ backend \in Backends
  /\ clock = 0 /\ version = 0 /\ rows = {}
  /\ catalog \in Catalogs \cup {NoOutput} /\ loaded = NoOutput
  /\ planning = [p \in Plannings |-> NoPlanning]
  /\ restarts = 0

\* DeliveryPlanningSkillInput, PromptGenerationSkillInput: a plan whose skill failed is empty.
Given(p, s) ==
  [demand |-> planning[p].demand,
   plans |-> IF s \in PromptSkills THEN [q \in PlanSkills |-> planning[p].calls[q].out] ELSE << >>]

\* Mutation: the version of the skill is not part of the key.
Key_NoVersion(p, s) == [skill |-> s, given |-> Given(p, s)]

\* _build_cache_key_hash.
Key(p, s) == [skill |-> s, given |-> Given(p, s), version |-> version]

\* What a handler is given, whatever the key is (history).
Work(p, s) == [skill |-> s, given |-> Given(p, s), version |-> version]

\* SkillCacheBackend.get: a row of the key that is not expired.
Cached(key) == {r \in rows : r.key = key /\ clock - r.at <= TTL}

Without(key) == {r \in rows : r.key # key}

\* SkillCacheBackend.set, at the time of the write.
Cache(key, of, out) == rows' = Without(key) \cup {[key |-> key, at |-> clock, of |-> of, out |-> out]}

Becomes(p, s, call) == planning' = [planning EXCEPT ![p].calls[s] = call]

\* SkillExecutor.execute with a hit.
FromCache(r) == Call("done", r.out, r.of)

-----------------------------------------------------------------------------
\* A review comes to its risks.
StartPlanning(p, demand) ==
  /\ planning[p].stage = "idle"
  /\ planning' = [planning EXCEPT ![p].stage = "risks", ![p].demand = demand, ![p].version = version]
  /\ UNCHANGED <<toolCalls, backend, clock, version, rows, catalog, loaded, restarts>>

\* What follows a stage whose executions have all ended.
NextStage == [risks |-> "plans", plans |-> "prompts", prompts |-> "planned"]
SkillsOf  == [risks |-> {Search}, plans |-> PlanSkills, prompts |-> PromptSkills]
Running(p) == planning[p].stage \in DOMAIN NextStage

\* search_risk_catalog reads the file once in a process.
CatalogRead == IF loaded # NoOutput THEN loaded ELSE catalog

\* _retrieve_evidence_node: a hit, or the search at once; without the catalog, or when the
\* tool is turned off, risks are found without evidence.
SearchCatalog(p) ==
  LET key == Key(p, Search)
      hit == Cached(key)
  IN  /\ planning[p].stage = "risks" /\ planning[p].calls[Search] = NotCalled
      /\ \/ /\ hit # {}
            /\ \E r \in hit : Becomes(p, Search, FromCache(r))
            /\ UNCHANGED <<rows, loaded>>
         \/ /\ hit = {} /\ CatalogRead # NoOutput
            /\ loaded' = CatalogRead
            /\ Cache(key, Work(p, Search), CatalogRead)
            /\ Becomes(p, Search, Call("done", CatalogRead, Work(p, Search)))
         \/ /\ hit = {} /\ CatalogRead = NoOutput
            /\ rows' = Without(key)
            /\ Becomes(p, Search, Degraded)
            /\ UNCHANGED loaded
         \/ /\ Becomes(p, Search, Degraded)
            /\ UNCHANGED <<rows, loaded>>
      /\ UNCHANGED <<toolCalls, backend, clock, version, catalog, restarts>>

\* SkillExecutor.execute: a hit is returned; a miss asks the model, after an expired row
\* has been removed.
Execute(p, s) ==
  LET key == Key(p, s)
      hit == Cached(key)
  IN  /\ Running(p) /\ s \in SkillsOf[planning[p].stage] \ {Search}
      /\ planning[p].calls[s] = NotCalled
      /\ \/ /\ \E r \in hit : Becomes(p, s, FromCache(r))
            /\ UNCHANGED rows
         \/ /\ hit = {}
            /\ Becomes(p, s, Asking)
            /\ rows' = Without(key)
      /\ UNCHANGED <<toolCalls, backend, clock, version, catalog, loaded, restarts>>

\* The arguments of a tool call, which fit the schema or not.
ToolReplies == IF toolCalls THEN {"fits", "misfit"} ELSE {}

\* _invoke_once: such arguments; or, when there are no tools or the call of one raised, a
\* text, unless that call raises as well.
Replies == {"text", "raises"} \cup ToolReplies

\* validate_output: the schema of a skill is a class, which takes no text.
Valid(reply) == reply = "fits"

Waiting(p, s) == planning[p].calls[s].state = "asked"

\* One of the attempts is answered by what fits the schema: the output goes into the
\* cache, over what another review has put there since.
ModelAnswers(p, s) ==
  /\ Waiting(p, s) /\ \E reply \in Replies : Valid(reply)
  /\ \E out \in Answers :
       /\ Cache(Key(p, s), Work(p, s), out)
       /\ Becomes(p, s, Call("done", out, Work(p, s)))
  /\ UNCHANGED <<toolCalls, backend, clock, version, catalog, loaded, restarts>>

\* validate_with_retries: an answer that is not valid is asked for again with its errors.
\* The third such answer, or one that raises, ends the execution with an error, which is
\* not cached: _execute_skill leaves that part empty.
CallFails(p, s) ==
  /\ Waiting(p, s) /\ \E reply \in Replies : ~ Valid(reply)
  /\ Becomes(p, s, Degraded)
  /\ UNCHANGED <<toolCalls, backend, clock, version, rows, catalog, loaded, restarts>>

\* gather: both have ended.
Gather(p) ==
  /\ Running(p)
  /\ \A s \in SkillsOf[planning[p].stage] : planning[p].calls[s].state \in {"done", "degraded"}
  /\ planning' = [planning EXCEPT ![p].stage = NextStage[@]]
  /\ UNCHANGED <<toolCalls, backend, clock, version, rows, catalog, loaded, restarts>>

Tick ==
  /\ clock < MaxClock /\ clock' = clock + 1
  /\ UNCHANGED <<toolCalls, backend, version, rows, catalog, loaded, planning, restarts>>

EditCatalog ==
  /\ catalog' \in Catalogs
  /\ UNCHANGED <<toolCalls, backend, clock, version, rows, loaded, planning, restarts>>

\* The process dies or a new version is deployed: reviews under way are lost, and what
\* was cached in memory.
Redeploy ==
  /\ restarts < MaxRestarts /\ restarts' = restarts + 1
  /\ version' \in {version, version + 1}
  /\ rows' = IF backend = "sqlite" THEN rows ELSE {}
  /\ loaded' = NoOutput
  /\ planning' = [p \in Plannings |-> IF Running(p) THEN NoPlanning ELSE planning[p]]
  /\ UNCHANGED <<toolCalls, backend, clock, catalog>>

SkillsNext ==
  \/ Tick \/ EditCatalog \/ Redeploy
  \/ \E p \in Plannings :
       \/ SearchCatalog(p) \/ Gather(p)
       \/ \E demand \in Demands : StartPlanning(p, demand)
       \/ \E s \in Skills : Execute(p, s) \/ ModelAnswers(p, s) \/ CallFails(p, s)

SkillsSpec == SkillsInit /\ [][SkillsNext]_skillVars

-----------------------------------------------------------------------------
\* The values the variables range over.
SkillsTypeOK ==
  /\ clock \in 0 .. MaxClock /\ version \in 0 .. restarts
  /\ catalog \in Catalogs \cup {NoOutput} /\ loaded \in Catalogs \cup {NoOutput}
  /\ \A r \in rows : r.out \in Answers \cup Catalogs /\ r.at <= clock
  /\ \A r, q \in rows : r.key = q.key => r = q

\* What a review holds of a skill was made by that skill, in the version the review runs
\* with, from its own requirement and, for a prompt, from the very plans it holds; whichever
\* review asked for it, and whatever was deployed or overwritten since (executor.py,
\* cache_backend.py).
OwnWork ==
  \A p \in Plannings : \A s \in Skills :
    LET call == planning[p].calls[s]
    IN  call.state = "done" =>
          call.of = [skill |-> s, given |-> Given(p, s), version |-> planning[p].version]
=============================================================================

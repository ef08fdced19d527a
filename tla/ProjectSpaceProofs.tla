------------------------- MODULE ProjectSpaceProofs -------------------------
(***************************************************************************)
(* Theorems of the components around a project: the commands of the agent  *)
(* and the sources they work on (AgentCommands, Materials), the sync of    *)
(* connectors (ConnectorSync) and their settings (Connections); for any    *)
(* numbers of commands, tries, sources, reviews, pages, edits, runs of a   *)
(* task, projects, secrets and master keys.                                *)
(***************************************************************************)
EXTENDS MCProjectSpace, TLAPS, WellFoundedInduction

-----------------------------------------------------------------------------
(* AgentCommands, Materials. *)

(* The greatest of a set of numbers. *)

LEMMA MaxOf ==
  ASSUME NEW N \in Nat, NEW S \in SUBSET (0 .. N), S # {}
  PROVE  Max(S) \in S /\ \A x \in S : x <= Max(S)
<1> DEFINE R == OpToRel(<, Nat)
           T == {N - x : x \in S}
<1>1. T \subseteq Nat /\ T # {}
  <2>1. \A x \in S : N - x \in Nat OBVIOUS
  <2>2. PICK x \in S : TRUE OBVIOUS
  <2>3. N - x \in T OBVIOUS
  <2> QED BY <2>1, <2>3
<1>2. PICK t \in T : \A y \in T : ~ (<<y, t>> \in R)
  <2> HIDE DEF R, T
  <2>1. IsWellFoundedOn(R, Nat) BY NatLessThanWellFounded DEF R
  <2> QED BY <1>1, <2>1, WFMin
<1>3. \A y \in T : t <= y
  <2> SUFFICES ASSUME NEW y \in T PROVE t <= y OBVIOUS
  <2>1. y \in Nat /\ t \in Nat BY <1>1, <1>2
  <2>2. ~ (y < t) BY <1>2, <2>1 DEF OpToRel
  <2> HIDE DEF T
  <2> QED BY <2>1, <2>2
<1>4. PICK m \in S : t = N - m
  BY <1>2
<1>5. \A x \in S : m >= x
  BY <1>3, <1>4
<1> QED BY <1>5 DEF Max

-----------------------------------------------------------------------------
(* The inductive invariant. *)

\* Sources: a version is no higher than the number of sources before it and itself, which
\* bounds the versions of a title.
SourceInv ==
  /\ sources \in Seq(Sources)
  /\ Len(sources) <= MaxSources
  /\ \A i \in DOMAIN sources : sources[i].version <= i
  /\ SourceHistory

\* A text that the command may have been confirmed with.
Allowed(c, text) == command[c].checksum = {} \/ text \in command[c].checksum

\* A review that a command started was given such a text.
ReviewInv ==
  /\ reviews \in Seq(Reviews)
  /\ \A r \in DOMAIN reviews :
       /\ reviews[r].command # Nobody =>
            /\ reviews[r].command \in Commands /\ Posted(reviews[r].command)
            /\ Allowed(reviews[r].command, reviews[r].text)
       /\ reviews[r].url = NoUrl => reviews[r].reviewed \subseteq {reviews[r].text}

Tables ==
  /\ command \in [Commands -> CommandRows \cup {NoCommand}]
  /\ execution \in [Commands -> Executions \cup {NoCommand}]
  /\ made \in [Commands -> [Effects -> Nat]]
  /\ missed \in [Commands -> [Effects -> Nat]]

\* What is made, by whom it may be, and what an execution knows of it.
Made(c)   == {e \in Effects : made[c][e] > 0}
Missed(c) == {e \in Effects : missed[c][e] > 0}

PlanOf(c)  == Plan(command[c].action)
Before(c)  == {i \in DOMAIN PlanOf(c) : i < execution[c].at}

\* A command that is executed, or was, and needs a confirmation has it.
ConfirmedInv(c) ==
  RequiresConfirmation(command[c].action)
    /\ (Executing(c) \/ Made(c) # {} \/ command[c].status \notin {"awaiting_confirmation", "dismissed"}) =>
  command[c].confirmed

\* An execution has made what comes before its step, and what it looked up it found or
\* missed.
ExecutionInv(c) ==
  Executing(c) =>
    /\ command[c].status \in {"running", "dismissed"}
    /\ \A i \in Before(c) : PlanOf(c)[i] \in Made(c)
    /\ execution[c].seen =>
         /\ NextEffect(c) \subseteq LookedUp
         /\ execution[c].found \subseteq Made(c)
         /\ \A e \in NextEffect(c) : e \in execution[c].found \/ made[c][e] <= missed[c][e]

CommandInv(c) ==
  /\ Posted(c) =>
       /\ ConfirmedInv(c)
       /\ ExecutionInv(c)
       /\ \A e \in LookedUp : made[c][e] <= 1 + missed[c][e]
       /\ command[c].status = "completed" =>
            \A i \in DOMAIN PlanOf(c) : PlanOf(c)[i] \in Made(c)
  /\ ~ Posted(c) => ~ Executing(c) /\ Made(c) = {} /\ Missed(c) = {}

CommandsInv == \A c \in Commands : CommandInv(c)

AgentInv == SourceInv /\ ReviewInv /\ outside \in Texts /\ Tables /\ CommandsInv

-----------------------------------------------------------------------------
(* Initially. *)

LEMMA AgentInitHolds ==
  ASSUME MaterialsInit, AgentInit
  PROVE  AgentInv
<1>1. SourceInv
  <2>1. sources = << >> \/ \E row \in OldRows : sources = <<row>> BY DEF MaterialsInit
  <2>2. CASE sources = << >> BY <2>2, MaterialsAssumption DEF SourceInv, SourceHistory
  <2>3. ASSUME NEW row \in OldRows, sources = <<row>> PROVE SourceInv
    <3>1. /\ row \in Sources /\ row.version = 1 /\ row.parent = 0 /\ row.checksum = NoChecksum
      <4>1. 1 \in 1 .. MaxSources /\ 0 \in 0 .. MaxSources BY MaterialsAssumption
      <4> QED BY <4>1 DEF OldRows, Sources
    <3>2. sources \in Seq(Sources) /\ Len(sources) = 1 /\ \A i \in DOMAIN sources : i = 1 /\ sources[i] = row
      BY <2>3, <3>1
    <3> QED BY <3>1, <3>2, MaterialsAssumption DEF SourceInv, SourceHistory
  <2> QED BY <2>1, <2>2, <2>3
<1>2. ReviewInv
  BY DEF MaterialsInit, ReviewInv
<1>3. Tables /\ CommandsInv
  BY DEF AgentInit, Tables, CommandsInv, CommandInv, Posted, Executing, Made, Missed
<1> QED BY <1>1, <1>2, <1>3 DEF MaterialsInit, AgentInv

-----------------------------------------------------------------------------
(* Sources. *)

LEMMA Versions ==
  ASSUME SourceInv, NEW title, VersionsOf(title) # {}
  PROVE  /\ Max(VersionsOf(title)) \in VersionsOf(title)
         /\ \A v \in VersionsOf(title) : v <= Max(VersionsOf(title))
         /\ VersionsOf(title) \subseteq 1 .. Len(sources)
<1>1. VersionsOf(title) \subseteq 1 .. Len(sources)
  <2> SUFFICES ASSUME NEW i \in DOMAIN sources PROVE sources[i].version \in 1 .. Len(sources)
    BY DEF VersionsOf
  <2>1. sources[i] \in Sources /\ sources[i].version <= i BY DEF SourceInv
  <2>2. i \in 1 .. Len(sources) BY DEF SourceInv
  <2> QED BY <2>1, <2>2, MaterialsAssumption DEF Sources
<1>2. Len(sources) \in Nat /\ VersionsOf(title) \in SUBSET (0 .. Len(sources))
  BY <1>1 DEF SourceInv
<1> QED BY <1>1, <1>2, MaxOf

\* A row has the checksum of its text, or is as it was before there were any.
HasChecksum(row) ==
  \/ row.checksum = row.text
  \/ row.checksum = NoChecksum /\ row.parent = 0 /\ row.version = 1

\* A row that may follow those there are.
Fitting(row) ==
  /\ row \in Sources
  /\ row.checksum = row.text
  /\ row.version <= Len(sources) + 1
  /\ row.parent <= Len(sources)
  /\ row.parent # 0 => sources[row.parent].version < row.version

LEMMA Inserted ==
  ASSUME SourceInv, NEW row, Fitting(row), InsertSource(row)
  PROVE  SourceInv'
<1>1. /\ sources' \in Seq(Sources) /\ Len(sources') = Len(sources) + 1
      /\ sources'[Len(sources) + 1] = row
      /\ \A i \in DOMAIN sources : sources'[i] = sources[i]
      /\ DOMAIN sources' = DOMAIN sources \cup {Len(sources) + 1}
      /\ DOMAIN sources = 1 .. Len(sources) /\ Len(sources) \in Nat
  BY DEF SourceInv, InsertSource, Fitting
<1>2. Len(sources') <= MaxSources
  BY <1>1, MaterialsAssumption DEF SourceInv, InsertSource
<1>3. \A i \in DOMAIN sources' : sources'[i].version <= i
  BY <1>1 DEF SourceInv, Fitting
<1>4. SourceHistory'
  <2> SUFFICES ASSUME NEW i \in DOMAIN sources', sources'[i].stored
               PROVE  /\ HasChecksum(sources'[i])
                      /\ sources'[i].parent < i
                      /\ sources'[i].parent # 0 =>
                           sources'[sources'[i].parent].version < sources'[i].version
    BY DEF SourceHistory, HasChecksum
  <2>1. CASE i = Len(sources) + 1
    <3>1. row.parent \in Nat BY MaterialsAssumption DEF Fitting, Sources
    <3>2. row.parent # 0 => row.parent \in DOMAIN sources BY <1>1, <3>1 DEF Fitting
    <3> QED BY <1>1, <2>1, <3>1, <3>2 DEF Fitting, HasChecksum
  <2>2. CASE i \in DOMAIN sources
    <3>0. sources[i] \in Sources BY <1>1, <2>2 DEF SourceInv
    <3>1. sources'[i] = sources[i] /\ sources[i].parent \in Nat
      BY <1>1, <2>2, <3>0, MaterialsAssumption DEF Sources
    <3>2. sources[i].parent < i BY <2>2, <3>1 DEF SourceInv, SourceHistory
    <3>3. sources[i].parent # 0 => sources[i].parent \in DOMAIN sources
      BY <1>1, <2>2, <3>1, <3>2
    <3> QED BY <1>1, <2>2, <3>1, <3>3 DEF SourceInv, SourceHistory, HasChecksum
  <2> QED BY <1>1, <2>1, <2>2
<1> QED BY <1>1, <1>2, <1>3, <1>4 DEF SourceInv

LEMMA There ==
  ASSUME SourceInv, NEW i, SourceThere(i)
  PROVE  /\ i \in DOMAIN sources /\ i \in 1 .. Len(sources) /\ Len(sources) \in Nat
         /\ sources[i] \in Sources /\ sources[i].version <= i /\ sources[i].version \in Nat
         /\ HasChecksum(sources[i])
<1>1. i \in DOMAIN sources /\ sources[i].stored BY DEF SourceThere
<1>2. i \in 1 .. Len(sources) /\ Len(sources) \in Nat /\ sources[i] \in Sources
  BY <1>1 DEF SourceInv
<1>3. sources[i].version \in Nat BY <1>2, MaterialsAssumption DEF Sources
<1> QED BY <1>1, <1>2, <1>3 DEF SourceInv, SourceHistory, HasChecksum

LEMMA NewestThere ==
  ASSUME SourceInv, NEW title, NEW p \in Newest(title), p # 0
  PROVE  SourceThere(p)
BY DEF Newest

LEMMA AddStep ==
  ASSUME SourceInv, NEW title \in Titles, NEW text \in Texts, NEW url \in Urls, NEW prd \in BOOLEAN,
         NEW parent, CreateVersion(title, parent, text, url, prd)
  PROVE  SourceInv'
<1> DEFINE row(t, v, p) == [stored |-> TRUE, title |-> t, version |-> v, parent |-> p, text |-> text,
                            checksum |-> text, url |-> url, prd |-> prd]
<1>0. Len(sources) \in Nat /\ Len(sources) < MaxSources
  <2>1. Len(sources) < MaxSources BY DEF CreateVersion, InsertSource
  <2> QED BY <2>1 DEF SourceInv
<1>1. ASSUME NEW p, SourceThere(p), NEW t \in Titles
      PROVE  Fitting(row(t, sources[p].version + 1, p))
  <2>1. /\ p \in 1 .. Len(sources) /\ sources[p].version <= p /\ sources[p].version \in Nat
    BY <1>1, There
  <2> QED BY <1>0, <1>1, <2>1, MaterialsAssumption DEF Fitting, Sources
<1>2. CASE parent # 0
  <2>1. SourceThere(parent) /\ InsertSource(row(sources[parent].title, sources[parent].version + 1, parent))
    BY <1>2 DEF CreateVersion
  <2>2. sources[parent].title \in Titles BY <2>1, There DEF Sources
  <2>3. Fitting(row(sources[parent].title, sources[parent].version + 1, parent)) BY <1>1, <2>1, <2>2
  <2> QED BY <2>1, <2>3, Inserted
<1>3. CASE parent = 0
  <2>1. PICK p \in Newest(title) :
          InsertSource(row(title, IF p = 0 THEN 1 ELSE sources[p].version + 1, p))
    BY <1>3 DEF CreateVersion
  <2>2. CASE p = 0
    <3>1. Fitting(row(title, 1, 0)) BY <1>0, MaterialsAssumption DEF Fitting, Sources
    <3> QED BY <2>1, <2>2, <3>1, Inserted
  <2>3. CASE p # 0
    <3>1. SourceThere(p) BY <2>3, NewestThere
    <3>2. Fitting(row(title, sources[p].version + 1, p)) BY <1>1, <3>1
    <3> QED BY <2>1, <2>3, <3>2, Inserted
  <2> QED BY <2>2, <2>3
<1> QED BY <1>2, <1>3

\* A row that is written over another with the same number and parent.
LEMMA Rewritten ==
  ASSUME SourceInv, NEW j \in DOMAIN sources, NEW row \in Sources,
         row.version = sources[j].version, row.parent = sources[j].parent,
         row.stored => sources[j].stored /\ HasChecksum(row),
         sources' = [sources EXCEPT ![j] = row]
  PROVE  SourceInv'
<1>1. /\ sources' \in Seq(Sources) /\ Len(sources') = Len(sources)
      /\ DOMAIN sources' = DOMAIN sources
  BY DEF SourceInv
<1>2. \A i \in DOMAIN sources : sources'[i] = IF i = j THEN row ELSE sources[i]
  BY DEF SourceInv
<1>3. \A i \in DOMAIN sources : sources'[i].version = sources[i].version
                               /\ sources'[i].parent = sources[i].parent
  BY <1>2
<1>4. SourceHistory'
  <2> SUFFICES ASSUME NEW i \in DOMAIN sources', sources'[i].stored
               PROVE  /\ HasChecksum(sources'[i])
                      /\ sources'[i].parent < i
                      /\ sources'[i].parent # 0 =>
                           sources'[sources'[i].parent].version < sources'[i].version
    BY DEF SourceHistory, HasChecksum
  <2>1. i \in DOMAIN sources /\ sources[i].stored BY <1>1, <1>2
  <2>2. /\ HasChecksum(sources[i]) /\ sources[i].parent < i
        /\ sources[i].parent # 0 => sources[sources[i].parent].version < sources[i].version
    BY <2>1 DEF SourceInv, SourceHistory, HasChecksum
  <2>3. HasChecksum(sources'[i]) BY <1>2, <2>1, <2>2
  <2>4. sources[i].parent # 0 => sources[i].parent \in DOMAIN sources
    <3>1. sources[i] \in Sources /\ i \in 1 .. Len(sources) /\ Len(sources) \in Nat
      BY <2>1 DEF SourceInv
    <3>2. sources[i].parent \in Nat BY <3>1, MaterialsAssumption DEF Sources
    <3>3. sources[i].parent # 0 => sources[i].parent \in 1 .. Len(sources) BY <2>2, <3>1, <3>2
    <3> QED BY <3>3 DEF SourceInv
  <2> QED BY <1>3, <2>1, <2>2, <2>3, <2>4
<1> QED BY <1>1, <1>3, <1>4 DEF SourceInv

LEMMA RollbackStep ==
  ASSUME SourceInv, NEW i, RollbackSource(i)
  PROVE  SourceInv'
<1> DEFINE title == sources[i].title
           row == [sources[i] EXCEPT !.version = Max(VersionsOf(title)) + 1,
                                     !.parent = i, !.checksum = sources[i].text]
<1>1. SourceThere(i) /\ InsertSource(row) BY DEF RollbackSource
<1>2. /\ i \in DOMAIN sources /\ i \in 1 .. Len(sources) /\ Len(sources) \in Nat
      /\ sources[i] \in Sources
  BY <1>1, There
<1>3. sources[i].version \in VersionsOf(title) BY <1>1, <1>2 DEF VersionsOf
<1>4. /\ Max(VersionsOf(title)) \in 1 .. Len(sources)
      /\ sources[i].version <= Max(VersionsOf(title)) /\ sources[i].version \in 1 .. Len(sources)
  BY <1>3, Versions
<1>5. Len(sources) < MaxSources BY <1>1 DEF InsertSource
<1>6. Max(VersionsOf(title)) + 1 \in 1 .. MaxSources /\ i \in 0 .. MaxSources
  BY <1>2, <1>4, <1>5, MaterialsAssumption
<1> DEFINE v == Max(VersionsOf(title))
<1>7. /\ row \in Sources /\ row.version = v + 1 /\ row.parent = i
      /\ row.checksum = row.text
  <2> HIDE DEF v
  <2>1. v + 1 \in 1 .. MaxSources BY <1>6 DEF v
  <2>2. row = [sources[i] EXCEPT !.version = v + 1, !.parent = i, !.checksum = sources[i].text] BY DEF v
  <2> HIDE DEF row
  <2> QED BY <1>2, <1>6, <2>1, <2>2 DEF Sources
<1>8. Fitting(row)
  <2> HIDE DEF row
  <2>1. v \in 1 .. Len(sources) /\ sources[i].version <= v /\ sources[i].version \in 1 .. Len(sources)
    BY <1>4
  <2> HIDE DEF v
  <2> QED BY <1>2, <1>7, <2>1 DEF Fitting
<1> HIDE DEF row
<1> QED BY <1>1, <1>8, Inserted

LEMMA UpdateStep ==
  ASSUME SourceInv, NEW i, NEW title \in Titles, NEW url \in Urls, NEW prd \in BOOLEAN,
         UpdateSource(i, title, url, prd)
  PROVE  SourceInv'
<1> DEFINE row == [sources[i] EXCEPT !.title = title, !.url = url, !.prd = prd]
<1>1. SourceThere(i) BY DEF UpdateSource
<1>2. i \in DOMAIN sources /\ sources[i] \in Sources /\ HasChecksum(sources[i])
      /\ sources[i].stored
  BY <1>1, There DEF SourceThere
<1>3. sources' = [sources EXCEPT ![i] = row] BY <1>2 DEF UpdateSource
<1>4. row \in Sources BY <1>2 DEF Sources
<1>5. /\ row.version = sources[i].version /\ row.parent = sources[i].parent
      /\ HasChecksum(row)
  BY <1>2 DEF Sources, HasChecksum
<1> HIDE DEF row
<1> QED BY <1>2, <1>3, <1>4, <1>5, Rewritten

LEMMA DeleteStep ==
  ASSUME SourceInv, NEW i, DeleteSource(i)
  PROVE  SourceInv'
<1> DEFINE row == [sources[i] EXCEPT !.stored = FALSE]
<1>1. SourceThere(i) BY DEF DeleteSource
<1>2. i \in DOMAIN sources /\ sources[i] \in Sources
  BY <1>1, There
<1>3. sources' = [sources EXCEPT ![i] = row] BY <1>2 DEF DeleteSource
<1>4. row \in Sources BY <1>2 DEF Sources
<1>5. row.version = sources[i].version /\ row.parent = sources[i].parent /\ ~ row.stored
  BY <1>2 DEF Sources
<1> HIDE DEF row
<1> QED BY <1>2, <1>3, <1>4, <1>5, Rewritten

-----------------------------------------------------------------------------
(* Reviews. *)

\* No command disappears, or forgets the checksum it was confirmed with.
CommandsStay ==
  \A c \in Commands : Posted(c) => Posted(c)' /\ command'[c].checksum = command[c].checksum

LEMMA ReviewsStay ==
  ASSUME ReviewInv, CommandsStay, UNCHANGED reviews
  PROVE  ReviewInv'
BY DEF ReviewInv, CommandsStay, Posted, Allowed

LEMMA ReviewEnqueued ==
  ASSUME SourceInv, ReviewInv, CommandsStay, NEW i, SourceThere(i),
         NEW command_, Enqueue(i, command_), command_ \in {Nobody} \cup Commands,
         command_ # Nobody => Posted(command_) /\ Allowed(command_, sources[i].text)
  PROVE  ReviewInv'
<1> DEFINE row == [source |-> i, text |-> sources[i].text, url |-> sources[i].url,
                   command |-> command_, reviewed |-> {}]
<1>1. /\ i \in 1 .. Len(sources) /\ Len(sources) \in Nat /\ sources[i] \in Sources
  BY There
<1>2. i \in 1 .. MaxSources BY <1>1, MaterialsAssumption DEF SourceInv
<1>3. row \in Reviews BY <1>1, <1>2, AgentAssumption DEF Reviews, Sources
<1>4. reviews' = Append(reviews, row) /\ reviews \in Seq(Reviews) BY DEF Enqueue, ReviewInv
<1> HIDE DEF row
<1>5. /\ reviews' \in Seq(Reviews)
      /\ \A r \in DOMAIN reviews' : reviews'[r] = row \/ (r \in DOMAIN reviews /\ reviews'[r] = reviews[r])
  BY <1>3, <1>4
<1>6. /\ row.command = command_ /\ row.text = sources[i].text /\ row.reviewed = {} BY DEF row
<1> SUFFICES ASSUME NEW r \in DOMAIN reviews'
             PROVE  /\ reviews'[r].command # Nobody =>
                         /\ reviews'[r].command \in Commands /\ command'[reviews'[r].command] # NoCommand
                         /\ \/ command'[reviews'[r].command].checksum = {}
                            \/ reviews'[r].text \in command'[reviews'[r].command].checksum
                    /\ reviews'[r].url = NoUrl => reviews'[r].reviewed \subseteq {reviews'[r].text}
  BY <1>5 DEF ReviewInv, Posted, Allowed
<1>7. CASE reviews'[r] = row
  BY <1>1, <1>6, <1>7 DEF CommandsStay, Posted, Allowed
<1>8. CASE r \in DOMAIN reviews /\ reviews'[r] = reviews[r]
  BY <1>8 DEF ReviewInv, CommandsStay, Posted, Allowed
<1> QED BY <1>5, <1>7, <1>8

LEMMA ResolveStep ==
  ASSUME ReviewInv, outside \in Texts, CommandsStay, NEW r \in DOMAIN reviews, ResolveInput(r)
  PROVE  ReviewInv'
<1> DEFINE row == [reviews[r] EXCEPT !.reviewed = {Input(r)}]
<1>1. reviews \in Seq(Reviews) /\ reviews[r] \in Reviews BY DEF ReviewInv
<1>2. Input(r) \in Texts BY <1>1 DEF Input, Reviews
<1>3. row \in Reviews BY <1>1, <1>2 DEF Reviews
<1>4. reviews' = [reviews EXCEPT ![r] = row] BY DEF ResolveInput
<1>5. /\ row.command = reviews[r].command /\ row.text = reviews[r].text /\ row.url = reviews[r].url
      /\ row.url = NoUrl => row.reviewed \subseteq {row.text}
  BY <1>1 DEF Reviews, Input
<1> HIDE DEF row
<1>6. /\ reviews' \in Seq(Reviews) /\ DOMAIN reviews' = DOMAIN reviews
      /\ \A q \in DOMAIN reviews : reviews'[q] = IF q = r THEN row ELSE reviews[q]
  BY <1>1, <1>3, <1>4
<1> SUFFICES ASSUME NEW q \in DOMAIN reviews
             PROVE  /\ reviews'[q].command # Nobody =>
                         /\ reviews'[q].command \in Commands /\ command'[reviews'[q].command] # NoCommand
                         /\ \/ command'[reviews'[q].command].checksum = {}
                            \/ reviews'[q].text \in command'[reviews'[q].command].checksum
                    /\ reviews'[q].url = NoUrl => reviews'[q].reviewed \subseteq {reviews'[q].text}
  BY <1>6 DEF ReviewInv, Posted, Allowed
<1>7. /\ reviews'[q].command = reviews[q].command /\ reviews'[q].text = reviews[q].text
      /\ reviews'[q].url = NoUrl => reviews'[q].reviewed \subseteq {reviews'[q].text}
  BY <1>5, <1>6 DEF ReviewInv
<1> QED BY <1>7 DEF ReviewInv, CommandsStay, Posted, Allowed

-----------------------------------------------------------------------------
(* The requests of members. *)

LEMMA CommandsSame ==
  ASSUME Tables, CommandsInv, UNCHANGED agentVars
  PROVE  Tables' /\ CommandsInv' /\ CommandsStay
<1>1. Tables' /\ CommandsStay BY DEF Tables, agentVars, CommandsStay, Posted
<1>2. \A c \in Commands : CommandInv(c) => CommandInv(c)'
  BY DEF agentVars, CommandInv, ConfirmedInv, ExecutionInv, Posted, Executing, Made, Missed, Before,
         PlanOf, NextEffect
<1> QED BY <1>1, <1>2 DEF CommandsInv

LEMMA SourcesSame ==
  ASSUME SourceInv, UNCHANGED sources
  PROVE  SourceInv'
BY DEF SourceInv, SourceHistory

LEMMA MaterialsStep ==
  ASSUME AgentInv, MaterialsNext, UNCHANGED agentVars
  PROVE  AgentInv'
<1>0. Tables' /\ CommandsInv' /\ CommandsStay BY CommandsSame DEF AgentInv
<1>1. ASSUME SourceInv', UNCHANGED <<reviews, outside>> PROVE AgentInv'
  BY <1>0, <1>1, ReviewsStay DEF AgentInv
<1>2. ASSUME NEW title \in Titles, NEW text \in Texts, NEW url \in Urls, NEW prd \in BOOLEAN,
             NEW parent, AddSource(title, parent, text, url, prd)
      PROVE  AgentInv'
  <2>1. SourceInv' BY <1>2, AddStep DEF AddSource, AgentInv
  <2> QED BY <1>1, <1>2, <2>1 DEF AddSource
<1>3. ASSUME NEW title \in Titles, NEW url \in Urls, NEW prd \in BOOLEAN,
             NEW i, UpdateSource(i, title, url, prd)
      PROVE  AgentInv'
  <2>1. SourceInv' BY <1>3, UpdateStep DEF AgentInv
  <2> QED BY <1>1, <1>3, <2>1 DEF UpdateSource
<1>4. ASSUME NEW i, RollbackSource(i) PROVE AgentInv'
  <2>1. SourceInv' BY <1>4, RollbackStep DEF AgentInv
  <2> QED BY <1>1, <1>4, <2>1 DEF RollbackSource
<1>5. ASSUME NEW i, DeleteSource(i) PROVE AgentInv'
  <2>1. SourceInv' BY <1>5, DeleteStep DEF AgentInv
  <2> QED BY <1>1, <1>5, <2>1 DEF DeleteSource
<1>6. ASSUME NEW i, ReviewSource(i) PROVE AgentInv'
  <2>1. SourceThere(i) /\ Enqueue(i, Nobody) /\ UNCHANGED <<sources, outside>>
    BY <1>6 DEF ReviewSource
  <2>2. ReviewInv' BY <1>0, <2>1, ReviewEnqueued DEF AgentInv
  <2> QED BY <1>0, <2>1, <2>2, SourcesSame DEF AgentInv
<1>7. ASSUME NEW r \in DOMAIN reviews, ResolveInput(r) PROVE AgentInv'
  <2>1. ReviewInv' BY <1>0, <1>7, ResolveStep DEF AgentInv
  <2> QED BY <1>0, <1>7, <2>1, SourcesSame DEF AgentInv, ResolveInput
<1>8. CASE EditOutside
  BY <1>0, <1>8, SourcesSame, ReviewsStay DEF AgentInv, EditOutside
<1> QED BY <1>2, <1>3, <1>4, <1>5, <1>6, <1>7, <1>8 DEF MaterialsNext

-----------------------------------------------------------------------------
(* The steps of one command. *)

Others(c) ==
  \A d \in Commands : d # c =>
    /\ command'[d] = command[d] /\ execution'[d] = execution[d]
    /\ made'[d] = made[d] /\ missed'[d] = missed[d]

LEMMA OthersStay ==
  ASSUME CommandsInv, NEW c \in Commands, Others(c), CommandInv(c)',
         Posted(c) => command'[c] # NoCommand /\ command'[c].checksum = command[c].checksum
  PROVE  CommandsInv' /\ CommandsStay
<1>1. \A d \in Commands : d # c => CommandInv(d)'
  <2> SUFFICES ASSUME NEW d \in Commands, d # c PROVE CommandInv(d)' OBVIOUS
  <2>1. CommandInv(d) BY DEF CommandsInv
  <2>2. /\ command'[d] = command[d] /\ execution'[d] = execution[d]
        /\ made'[d] = made[d] /\ missed'[d] = missed[d]
    BY DEF Others
  <2> QED BY <2>1, <2>2 DEF CommandInv, ConfirmedInv, ExecutionInv, Posted, Executing, Made, Missed,
                            Before, PlanOf, NextEffect
<1> QED BY <1>1 DEF CommandsInv, CommandsStay, Others, Posted

LEMMA Plans ==
  ASSUME NEW action \in Actions
  PROVE  /\ DOMAIN Plan(action) \subseteq {1, 2}
         /\ \A i \in DOMAIN Plan(action) : Plan(action)[i] \in Effects
         /\ 2 \in DOMAIN Plan(action) => 1 \in DOMAIN Plan(action)
         /\ \A i, j \in DOMAIN Plan(action) : Plan(action)[i] = Plan(action)[j] => i = j
BY DEF Actions, Plan, Effects

LEMMA RowOf ==
  ASSUME Tables, NEW c \in Commands
  PROVE  /\ Posted(c) => command[c] \in CommandRows /\ command[c].action \in Actions
         /\ Executing(c) => execution[c] \in Executions
BY DEF Tables, Posted, Executing, CommandRows

\* The effect that is next.
LEMMA Next_ ==
  ASSUME Tables, CommandsInv, NEW c \in Commands, Executing(c), NEW e \in NextEffect(c)
  PROVE  /\ Posted(c)
         /\ execution[c].at \in DOMAIN PlanOf(c) /\ execution[c].at \in {1, 2}
         /\ e = PlanOf(c)[execution[c].at] /\ NextEffect(c) = {e} /\ e \in Effects
<1>1. Posted(c) BY DEF CommandsInv, CommandInv
<1>2. execution[c].at \in DOMAIN PlanOf(c) /\ NextEffect(c) = {PlanOf(c)[execution[c].at]}
  BY DEF NextEffect, PlanOf
<1>3. command[c].action \in Actions BY <1>1, RowOf
<1> QED BY <1>1, <1>2, <1>3, Plans DEF PlanOf

\* run_command claims a command that nothing executes.
LEMMA ClaimStep ==
  ASSUME Tables, CommandsInv, NEW c \in Commands, ~ Executing(c), NEW row \in CommandRows, Claim(c, row),
         Posted(c) => row.checksum = command[c].checksum,
         RequiresConfirmation(row.action) => row.confirmed,
         UNCHANGED <<made, missed>>
  PROVE  Tables' /\ CommandsInv' /\ CommandsStay
<1> DEFINE next == [row EXCEPT !.status = "running", !.tries = @ + 1]
           start == [at |-> 1, found |-> {}, seen |-> FALSE]
<1>1. /\ row.tries < MaxTries
      /\ command' = [command EXCEPT ![c] = next]
      /\ execution' = [execution EXCEPT ![c] = start]
  BY DEF Claim
<1>2. next \in CommandRows /\ start \in Executions
  <2>1. row.tries + 1 \in 0 .. MaxTries BY <1>1, AgentAssumption DEF CommandRows
  <2>2. "running" \in CommandStatus BY DEF CommandStatus
  <2>3. next \in CommandRows BY <2>1, <2>2 DEF CommandRows
  <2>4. start \in Executions BY DEF Executions
  <2> QED BY <2>3, <2>4
<1>3. /\ next.action = row.action /\ next.confirmed = row.confirmed /\ next.status = "running"
      /\ next.checksum = row.checksum
      /\ start.at = 1 /\ ~ start.seen
  BY DEF CommandRows
<1> HIDE DEF next, start
<1>4. Tables' BY <1>1, <1>2 DEF Tables
<1>5. command'[c] = next /\ execution'[c] = start /\ made' = made /\ missed' = missed BY <1>1 DEF Tables
<1>6. Others(c) BY <1>1 DEF Others, Tables
<1>7. next # NoCommand /\ start # NoCommand BY <1>2, AgentAssumption
<1>8. CommandInv(c)'
  <2>1. \A e \in LookedUp : made[c][e] <= 1 + missed[c][e]
    <3>1. CommandInv(c) BY DEF CommandsInv
    <3>2. CASE Posted(c) BY <3>1, <3>2 DEF CommandInv
    <3>3. CASE ~ Posted(c)
      <4>1. LookedUp \subseteq Effects BY DEF LookedUp, Effects
      <4>2. \A e \in Effects : ~ made[c][e] > 0 /\ made[c][e] \in Nat /\ missed[c][e] \in Nat
        BY <3>1, <3>3 DEF CommandInv, Made, Tables
      <4> QED BY <4>1, <4>2
    <3> QED BY <3>2, <3>3
  <2>2. row.action \in Actions BY DEF CommandRows
  <2>3. \A i \in DOMAIN Plan(row.action) : ~ i < 1 BY <2>2, Plans
  <2>4. ConfirmedInv(c)' BY <1>3, <1>5 DEF ConfirmedInv
  <2>5. ExecutionInv(c)' BY <1>3, <1>5, <2>3 DEF ExecutionInv, Before, PlanOf
  <2> QED BY <1>3, <1>5, <1>7, <2>1, <2>4, <2>5 DEF CommandInv, Posted, Executing
<1>9. Posted(c) => command'[c] # NoCommand /\ command'[c].checksum = command[c].checksum
  BY <1>3, <1>5, <1>7
<1> QED BY <1>4, <1>6, <1>8, <1>9, OthersStay

LEMMA LatestIsThere ==
  ASSUME SourceInv
  PROVE  LatestPrd \in 0 .. MaxSources /\ (LatestPrd # 0 => sources[LatestPrd] \in Sources)
<1> DEFINE prds == {i \in DOMAIN sources : SourceThere(i) /\ sources[i].prd}
<1>1. prds \subseteq DOMAIN sources /\ prds \in SUBSET (0 .. MaxSources)
  BY MaterialsAssumption DEF SourceInv
<1>2. prds # {} => LatestPrd \in prds
  <2> SUFFICES ASSUME prds # {} PROVE LatestPrd \in prds OBVIOUS
  <2>1. LatestPrd = Max(prds) BY DEF LatestPrd
  <2> HIDE DEF prds
  <2> QED BY <1>1, <2>1, MaxOf, MaterialsAssumption
<1>3. prds = {} => LatestPrd = 0 BY DEF LatestPrd
<1>4. \A i \in DOMAIN sources : sources[i] \in Sources BY DEF SourceInv
<1> QED
  <2> HIDE DEF prds
  <2> QED BY <1>1, <1>2, <1>3, <1>4, MaterialsAssumption

LEMMA PostStep ==
  ASSUME AgentInv, NEW c \in Commands, NEW action \in Actions, PostMessage(c, action)
  PROVE  AgentInv'
<1> DEFINE row == [action |-> action, confirmed |-> FALSE, tries |-> 0, source |-> LatestPrd,
                   checksum |-> IF LatestPrd = 0 THEN {} ELSE {sources[LatestPrd].checksum} \ {NoChecksum},
                   status |-> IF RequiresConfirmation(action) THEN "awaiting_confirmation"
                              ELSE "executable"]
<1>1. /\ ~ Posted(c)
      /\ IF RequiresConfirmation(action)
         THEN command' = [command EXCEPT ![c] = row] /\ UNCHANGED execution
         ELSE Claim(c, row)
      /\ UNCHANGED <<made, missed, materialVars>>
  BY DEF PostMessage
<1>2. LatestPrd \in 0 .. MaxSources
      /\ (LatestPrd # 0 => sources[LatestPrd].checksum \in Texts \cup {NoChecksum})
  BY LatestIsThere DEF AgentInv, Sources
<1>3. row \in CommandRows /\ row.action = action /\ row.status = IF RequiresConfirmation(action) THEN "awaiting_confirmation" ELSE "executable"
  BY <1>2, AgentAssumption DEF CommandRows, CommandStatus
<1> HIDE DEF row
<1>4. ~ Executing(c) /\ Made(c) = {} /\ Missed(c) = {} BY <1>1 DEF AgentInv, CommandsInv, CommandInv
<1>5. Tables' /\ CommandsInv' /\ CommandsStay
  <2>1. CASE ~ RequiresConfirmation(action)
    BY <1>1, <1>3, <1>4, <2>1, ClaimStep DEF AgentInv
  <2>2. CASE RequiresConfirmation(action)
    <3>1. command' = [command EXCEPT ![c] = row] /\ UNCHANGED <<execution, made, missed>> BY <1>1, <2>2
    <3>2. Tables' BY <1>3, <3>1 DEF AgentInv, Tables
    <3>3. command'[c] = row /\ execution'[c] = execution[c] /\ made' = made /\ missed' = missed
      BY <3>1 DEF AgentInv, Tables
    <3>4. Others(c) BY <3>1 DEF Others, AgentInv, Tables
    <3>5. CommandInv(c)'
      <4>1. ~ Executing(c)' /\ Made(c)' = {} /\ Missed(c)' = {}
        BY <1>4, <3>3 DEF Executing, Made, Missed
      <4>2. ConfirmedInv(c)' BY <1>3, <2>2, <3>3, <4>1 DEF ConfirmedInv
      <4>3. \A e \in LookedUp : made'[c][e] <= 1 + missed'[c][e]
        <5>1. LookedUp \subseteq Effects BY DEF LookedUp, Effects
        <5>2. \A e \in Effects : ~ made[c][e] > 0 /\ made[c][e] \in Nat /\ missed[c][e] \in Nat
          BY <1>4 DEF Made, AgentInv, Tables
        <5> QED BY <3>3, <5>1, <5>2
      <4> QED BY <1>3, <2>2, <3>3, <4>1, <4>2, <4>3 DEF CommandInv, ExecutionInv
    <3> QED BY <1>1, <3>2, <3>4, <3>5, OthersStay DEF AgentInv
  <2> QED BY <2>1, <2>2
<1> QED BY <1>1, <1>5, SourcesSame, ReviewsStay DEF AgentInv, materialVars

LEMMA ConfirmStep ==
  ASSUME AgentInv, NEW c \in Commands, ConfirmTask(c)
  PROVE  AgentInv'
<1>1. Posted(c) /\ UNCHANGED <<made, missed, materialVars>> BY DEF ConfirmTask
<1>2. command[c] \in CommandRows BY <1>1, RowOf DEF AgentInv
<1>3. CommandInv(c) BY DEF AgentInv, CommandsInv
<1>4. Tables' /\ CommandsInv' /\ CommandsStay
  <2>1. CASE /\ command[c].status = "awaiting_confirmation"
             /\ Claim(c, [command[c] EXCEPT !.status = "executable", !.confirmed = TRUE])
    <3> DEFINE row == [command[c] EXCEPT !.status = "executable", !.confirmed = TRUE]
    <3>1. /\ row \in CommandRows /\ row.checksum = command[c].checksum /\ row.confirmed
      BY <1>2 DEF CommandRows, CommandStatus
    <3>2. ~ Executing(c) BY <1>1, <1>3, <2>1 DEF CommandInv, ExecutionInv
    <3>3. Claim(c, row) BY <2>1
    <3> HIDE DEF row
    <3> QED BY <1>1, <3>1, <3>2, <3>3, ClaimStep DEF AgentInv
  <2>2. CASE command[c].status # "awaiting_confirmation" /\ Claim(c, command[c])
    <3>1. Claimable(command[c].status) BY <2>2 DEF Claim
    <3>2. ~ Executing(c) BY <1>1, <1>3, <3>1 DEF CommandInv, ExecutionInv, Claimable
    <3>3. RequiresConfirmation(command[c].action) => command[c].confirmed
      BY <1>1, <1>3, <3>1 DEF CommandInv, ConfirmedInv, Claimable
    <3> QED BY <1>1, <1>2, <2>2, <3>2, <3>3, ClaimStep DEF AgentInv
  <2> QED BY <2>1, <2>2 DEF ConfirmTask
<1> QED BY <1>1, <1>4, SourcesSame, ReviewsStay DEF AgentInv, materialVars

\* A status that says nothing of what was made.
LEMMA StatusStep ==
  ASSUME Tables, CommandsInv, NEW c \in Commands, Posted(c), NEW status \in CommandStatus,
         command' = [command EXCEPT ![c].status = status], UNCHANGED <<made, missed>>,
         \/ UNCHANGED execution /\ status = "dismissed"
         \/ execution' = [execution EXCEPT ![c] = NoCommand] /\ Executing(c),
         status = "completed" => \A i \in DOMAIN PlanOf(c) : PlanOf(c)[i] \in Made(c)
  PROVE  Tables' /\ CommandsInv' /\ CommandsStay
<1> DEFINE next == [command[c] EXCEPT !.status = status]
<1>1. command[c] \in CommandRows BY RowOf
<1>2. next \in CommandRows /\ next.action = command[c].action /\ next.confirmed = command[c].confirmed
      /\ next.status = status /\ next.checksum = command[c].checksum
  BY <1>1 DEF CommandRows
<1>3. command' = [command EXCEPT ![c] = next] BY DEF Tables
<1> HIDE DEF next
<1>4. Tables' BY <1>2, <1>3 DEF Tables
<1>5. command'[c] = next /\ made' = made /\ missed' = missed /\ next # NoCommand
  BY <1>2, <1>3, AgentAssumption DEF Tables
<1>6. execution'[c] = NoCommand \/ (execution'[c] = execution[c] /\ status = "dismissed")
  BY DEF Tables
<1>7. Others(c) BY <1>3 DEF Others, Tables
<1>8. CommandInv(c) BY DEF CommandsInv
<1>9. Made(c)' = Made(c) /\ PlanOf(c)' = PlanOf(c) BY <1>2, <1>5 DEF Made, PlanOf
<1>10. ConfirmedInv(c)'
  <2>1. status = "dismissed" \/ Executing(c) OBVIOUS
  <2>2. Executing(c)' => Executing(c) BY <1>6 DEF Executing
  <2> QED BY <1>2, <1>5, <1>8, <1>9, <2>1, <2>2 DEF CommandInv, ConfirmedInv
<1>11. ExecutionInv(c)'
  <2>1. CASE execution'[c] = NoCommand BY <2>1 DEF ExecutionInv, Executing
  <2>2. CASE execution'[c] = execution[c] /\ status = "dismissed"
    <3>1. ExecutionInv(c) BY <1>8 DEF CommandInv
    <3> QED BY <1>2, <1>5, <1>9, <2>2, <3>1 DEF ExecutionInv, Executing, Before, NextEffect, PlanOf
  <2> QED BY <1>6, <2>1, <2>2
<1>12. CommandInv(c)'
  BY <1>2, <1>5, <1>8, <1>9, <1>10, <1>11 DEF CommandInv, Posted
<1> QED BY <1>2, <1>4, <1>5, <1>7, <1>12, OthersStay

LEMMA FinishStep ==
  ASSUME Tables, CommandsInv, NEW c \in Commands, Executing(c), NEW status \in CommandStatus,
         Finish(c, status), UNCHANGED <<made, missed>>,
         status = "completed" => \A i \in DOMAIN PlanOf(c) : PlanOf(c)[i] \in Made(c)
  PROVE  Tables' /\ CommandsInv' /\ CommandsStay
<1>1. Posted(c) BY DEF CommandsInv, CommandInv
<1> QED BY <1>1, StatusStep DEF Finish

LEMMA DismissStep ==
  ASSUME AgentInv, NEW c \in Commands, DismissTask(c)
  PROVE  AgentInv'
<1>1. "dismissed" \in CommandStatus BY DEF CommandStatus
<1>2. Tables' /\ CommandsInv' /\ CommandsStay
  BY <1>1, StatusStep DEF AgentInv, DismissTask
<1> QED BY <1>2, SourcesSame, ReviewsStay DEF AgentInv, DismissTask, materialVars

\* What a lookup of one command does.
LEMMA LookedUpOf ==
  ASSUME AgentInv, NEW c \in Commands, LookUp(c)
  PROVE  \E e \in NextEffect(c) \cap LookedUp : \E found \in SUBSET (NextEffect(c) \cap Made(c)), n \in Nat :
           /\ Posted(c) /\ Executing(c) /\ ~ execution[c].seen /\ NextEffect(c) = {e} /\ e \in Effects
           /\ execution[c] \in Executions
           /\ execution' = [execution EXCEPT ![c] = [execution[c] EXCEPT !.seen = TRUE, !.found = found]]
           /\ missed' = [missed EXCEPT ![c][e] = n]
           /\ n = missed[c][e] \/ n = missed[c][e] + 1
           /\ e \in found \/ n = missed[c][e] + 1 \/ made[c][e] = 0
<1>1. PICK e \in NextEffect(c) \cap LookedUp : \E found :
        /\ found = {} \/ (found = {e} /\ made[c][e] > 0)
        /\ execution' = [execution EXCEPT ![c].seen = TRUE, ![c].found = found]
        /\ missed' = IF made[c][e] > 0 /\ found = {} THEN [missed EXCEPT ![c][e] = @ + 1] ELSE missed
  BY DEF LookUp
<1>0. PICK found :
        /\ found = {} \/ (found = {e} /\ made[c][e] > 0)
        /\ execution' = [execution EXCEPT ![c].seen = TRUE, ![c].found = found]
        /\ missed' = IF made[c][e] > 0 /\ found = {} THEN [missed EXCEPT ![c][e] = @ + 1] ELSE missed
  BY <1>1
<1>2. Executing(c) /\ ~ execution[c].seen BY DEF LookUp
<1>3. /\ Posted(c) /\ NextEffect(c) = {e} /\ e \in Effects
  BY <1>1, <1>2, Next_ DEF AgentInv
<1>4. execution[c] \in Executions BY <1>2, RowOf DEF AgentInv
<1>5. execution' = [execution EXCEPT ![c] = [execution[c] EXCEPT !.seen = TRUE, !.found = found]]
  BY <1>0, <1>4 DEF AgentInv, Tables
<1>6. found \in SUBSET (NextEffect(c) \cap Made(c)) BY <1>0, <1>3 DEF Made
<1>7. missed[c][e] \in Nat /\ made[c][e] \in Nat BY <1>3 DEF AgentInv, Tables
<1>8. CASE made[c][e] > 0 /\ found = {}
  <2> DEFINE n == missed[c][e] + 1
  <2>1. missed' = [missed EXCEPT ![c][e] = n] /\ n \in Nat BY <1>0, <1>7, <1>8
  <2> HIDE DEF n
  <2>2. n = missed[c][e] + 1 BY DEF n
  <2> QED BY <1>2, <1>3, <1>4, <1>5, <1>6, <2>1, <2>2
<1>9. CASE ~ (made[c][e] > 0 /\ found = {})
  <2> DEFINE n == missed[c][e]
  <2>1. missed' = [missed EXCEPT ![c][e] = n] BY <1>0, <1>3, <1>9 DEF AgentInv, Tables
  <2>2. e \in found \/ made[c][e] = 0 BY <1>0, <1>7, <1>9
  <2> QED BY <1>2, <1>3, <1>4, <1>5, <1>6, <1>7, <2>1, <2>2
<1> QED BY <1>8, <1>9

LEMMA LookUpStep ==
  ASSUME AgentInv, NEW c \in Commands, LookUp(c)
  PROVE  AgentInv'
<1>1. UNCHANGED <<command, made, materialVars>> BY DEF LookUp
<1>2. PICK e \in NextEffect(c) \cap LookedUp, found \in SUBSET (NextEffect(c) \cap Made(c)), n \in Nat :
        /\ Posted(c) /\ Executing(c) /\ ~ execution[c].seen /\ NextEffect(c) = {e} /\ e \in Effects
        /\ execution[c] \in Executions
        /\ execution' = [execution EXCEPT ![c] = [execution[c] EXCEPT !.seen = TRUE, !.found = found]]
        /\ missed' = [missed EXCEPT ![c][e] = n]
        /\ n = missed[c][e] \/ n = missed[c][e] + 1
        /\ e \in found \/ n = missed[c][e] + 1 \/ made[c][e] = 0
  BY LookedUpOf
<1> DEFINE next == [execution[c] EXCEPT !.seen = TRUE, !.found = found]
<1>5. /\ next \in Executions /\ next.at = execution[c].at /\ next.seen /\ next.found = found
  BY <1>2 DEF Executions, Made
<1>6. execution' = [execution EXCEPT ![c] = next] BY <1>2
<1> HIDE DEF next
<1>3. missed[c] \in [Effects -> Nat] /\ made[c] \in [Effects -> Nat] BY DEF AgentInv, Tables
<1>7. Tables' BY <1>1, <1>2, <1>5, <1>6 DEF AgentInv, Tables
<1>8. /\ execution'[c] = next /\ command'[c] = command[c] /\ made'[c] = made[c]
      /\ missed'[c] = [missed[c] EXCEPT ![e] = n]
  BY <1>1, <1>2, <1>6 DEF AgentInv, Tables
<1>9. Others(c) BY <1>1, <1>2, <1>6 DEF AgentInv, Tables, Others
<1>10. CommandInv(c) BY DEF AgentInv, CommandsInv
<1>11. Made(c)' = Made(c) /\ PlanOf(c)' = PlanOf(c) /\ NextEffect(c)' = NextEffect(c)
  BY <1>5, <1>8 DEF Made, PlanOf, NextEffect
<1>12. ConfirmedInv(c)' BY <1>1, <1>2, <1>8, <1>10, <1>11 DEF CommandInv, ConfirmedInv, Executing
<1>4. \A d \in LookedUp : made[c][d] <= 1 + missed[c][d] BY <1>2, <1>10 DEF CommandInv
<1>13. ExecutionInv(c)'
  <2>1. ExecutionInv(c) BY <1>2, <1>10 DEF CommandInv
  <2>2. Before(c)' = Before(c) BY <1>5, <1>8, <1>11 DEF Before
  <2>3. e \in found \/ made'[c][e] <= missed'[c][e]
    <3>1. made[c][e] <= 1 + missed[c][e] BY <1>2, <1>4
    <3> QED BY <1>2, <1>3, <1>8, <3>1
  <2> QED BY <1>1, <1>2, <1>5, <1>8, <1>11, <2>1, <2>2, <2>3 DEF ExecutionInv
<1>14. \A d \in LookedUp : made'[c][d] <= 1 + missed'[c][d]
  <2>1. LookedUp \subseteq Effects BY DEF LookedUp, Effects
  <2>2. n >= missed[c][e] BY <1>2, <1>3
  <2> QED BY <1>2, <1>3, <1>4, <1>8, <2>1, <2>2
<1>15. CommandInv(c)'
  BY <1>2, <1>8, <1>10, <1>11, <1>12, <1>13, <1>14 DEF CommandInv, Posted
<1>16. CommandsInv' /\ CommandsStay
  BY <1>2, <1>8, <1>9, <1>15, OthersStay DEF AgentInv, Posted
<1> QED BY <1>1, <1>7, <1>16, SourcesSame, ReviewsStay DEF AgentInv, materialVars

\* The effect that is next is made, and the execution goes on.
LEMMA EffectMade ==
  ASSUME Tables, CommandsInv, NEW c \in Commands, Executing(c), NEW e \in NextEffect(c), NEW n \in Nat,
         n > 0, e \in LookedUp => n <= 1 + missed[c][e],
         made' = [made EXCEPT ![c][e] = n], Step(c), UNCHANGED <<command, missed>>
  PROVE  Tables' /\ CommandsInv' /\ CommandsStay
<1>1. /\ Posted(c) /\ execution[c].at \in DOMAIN PlanOf(c) /\ execution[c].at \in {1, 2}
      /\ e = PlanOf(c)[execution[c].at] /\ e \in Effects
  BY Next_
<1> DEFINE next == [execution[c] EXCEPT !.at = @ + 1, !.seen = FALSE, !.found = {}]
<1>2. execution[c] \in Executions BY RowOf
<1>3. next \in Executions /\ next.at = execution[c].at + 1 /\ ~ next.seen
  <2>1. execution[c].at + 1 \in 1 .. 3 BY <1>1
  <2>2. {} \in SUBSET Effects OBVIOUS
  <2> QED BY <1>2, <2>1, <2>2 DEF Executions
<1>4. execution' = [execution EXCEPT ![c] = next] BY DEF Step, Tables
<1> HIDE DEF next
<1>5. /\ made'[c] = [made[c] EXCEPT ![e] = n] /\ made[c] \in [Effects -> Nat]
      /\ execution'[c] = next /\ command'[c] = command[c]
  BY <1>4 DEF Tables
<1>6. Tables' BY <1>1, <1>3, <1>4 DEF Tables
<1>7. Others(c) BY <1>4 DEF Tables, Others
<1>8. CommandInv(c) BY DEF CommandsInv
<1>9. Made(c)' = Made(c) \cup {e} BY <1>1, <1>5 DEF Made
<1>10. PlanOf(c)' = PlanOf(c) BY <1>5 DEF PlanOf
<1>11. ConfirmedInv(c)' BY <1>1, <1>5, <1>8 DEF CommandInv, ConfirmedInv
<1>12. /\ command[c].status \in {"running", "dismissed"}
       /\ \A i \in Before(c) : PlanOf(c)[i] \in Made(c)
  BY <1>1, <1>8 DEF CommandInv, ExecutionInv
<1>13. \A i \in Before(c)' : i \in Before(c) \/ i = execution[c].at
  <2>1. command[c].action \in Actions BY <1>1, RowOf
  <2>2. DOMAIN PlanOf(c) \subseteq {1, 2} BY <2>1, Plans DEF PlanOf
  <2> QED BY <1>1, <1>3, <1>5, <1>10, <2>2 DEF Before
<1>14. ExecutionInv(c)'
  BY <1>1, <1>3, <1>5, <1>9, <1>10, <1>12, <1>13 DEF ExecutionInv
<1>15. \A d \in LookedUp : made'[c][d] <= 1 + missed'[c][d]
  <2>1. LookedUp \subseteq Effects BY DEF LookedUp, Effects
  <2>2. \A d \in LookedUp : made[c][d] <= 1 + missed[c][d] BY <1>1, <1>8 DEF CommandInv
  <2> QED BY <1>5, <2>1, <2>2
<1>16. CommandInv(c)'
  BY <1>1, <1>5, <1>11, <1>12, <1>14, <1>15 DEF CommandInv, Posted
<1> QED BY <1>1, <1>5, <1>6, <1>7, <1>16, OthersStay DEF Posted

LEMMA FirstMade ==
  ASSUME Tables, CommandsInv, NEW c \in Commands, Executing(c), NEW e \in NextEffect(c),
         made' = [made EXCEPT ![c][e] = 1], Step(c), UNCHANGED <<command, missed>>
  PROVE  Tables' /\ CommandsInv' /\ CommandsStay
<1> DEFINE n == 1
<1>1. n \in Nat /\ n > 0 /\ n <= 1 /\ made' = [made EXCEPT ![c][e] = n] OBVIOUS
<1> HIDE DEF n
<1>2. missed[c][e] \in Nat BY Next_ DEF Tables
<1>3. n <= 1 + missed[c][e] BY <1>1, <1>2
<1> QED BY <1>1, <1>3, EffectMade

LEMMA CreateStep ==
  ASSUME AgentInv, NEW c \in Commands, Create(c)
  PROVE  AgentInv'
<1>1. PICK e \in NextEffect(c) :
        made' = IF e \in execution[c].found THEN made ELSE [made EXCEPT ![c][e] = @ + 1]
  BY DEF Create
<1>2. Executing(c) /\ execution[c].seen /\ Step(c) /\ UNCHANGED <<command, missed, materialVars>>
  BY DEF Create
<1>3. Posted(c) /\ NextEffect(c) = {e} /\ e \in Effects BY <1>1, <1>2, Next_ DEF AgentInv
<1>4. /\ e \in LookedUp /\ (e \in execution[c].found => e \in Made(c))
      /\ e \in execution[c].found \/ made[c][e] <= missed[c][e]
  BY <1>1, <1>2, <1>3 DEF AgentInv, CommandsInv, CommandInv, ExecutionInv
<1>5. /\ made[c] \in [Effects -> Nat] /\ made[c][e] \in Nat /\ missed[c][e] \in Nat
  BY <1>3 DEF AgentInv, Tables
<1>6. made[c][e] <= 1 + missed[c][e] BY <1>3, <1>4 DEF AgentInv, CommandsInv, CommandInv
<1> DEFINE n == IF e \in execution[c].found THEN made[c][e] ELSE made[c][e] + 1
<1>7. made' = [made EXCEPT ![c][e] = n] BY <1>1, <1>3, <1>5 DEF AgentInv, Tables
<1>8. n \in Nat /\ n > 0 /\ n <= 1 + missed[c][e] BY <1>4, <1>5, <1>6 DEF Made
<1> HIDE DEF n
<1>9. Tables' /\ CommandsInv' /\ CommandsStay
  BY <1>1, <1>2, <1>7, <1>8, EffectMade DEF AgentInv
<1> QED BY <1>2, <1>9, SourcesSame, ReviewsStay DEF AgentInv, materialVars

LEMMA ConnectSourceStep ==
  ASSUME AgentInv, NEW c \in Commands, ConnectSource(c)
  PROVE  AgentInv'
<1>1. Executing(c) /\ "source" \in NextEffect(c) /\ made' = [made EXCEPT ![c]["source"] = 1]
      /\ Step(c) /\ UNCHANGED <<command, missed, reviews, outside>>
  BY DEF ConnectSource
<1>2. Tables' /\ CommandsInv' /\ CommandsStay
  BY <1>1, FirstMade DEF AgentInv
<1> DEFINE same == {i \in DOMAIN sources : SourceThere(i) /\ sources[i].url = Url}
<1>3. PICK text \in Texts, title \in Titles :
        IF same = {}
        THEN InsertSource([stored |-> TRUE, title |-> title, version |-> 1, parent |-> 0,
                           text |-> text, checksum |-> text, url |-> Url, prd |-> TRUE])
        ELSE sources' = [sources EXCEPT ![Max(same)].text = text, ![Max(same)].checksum = text]
  BY DEF ConnectSource
<1>4. SourceInv BY DEF AgentInv
<1>5. SourceInv'
  <2>1. CASE same = {}
    <3> DEFINE row == [stored |-> TRUE, title |-> title, version |-> 1, parent |-> 0,
                       text |-> text, checksum |-> text, url |-> Url, prd |-> TRUE]
    <3>1. InsertSource(row) BY <1>3, <2>1
    <3>2. Len(sources) \in Nat /\ Len(sources) < MaxSources
      BY <1>4, <3>1 DEF SourceInv, InsertSource
    <3>3. Fitting(row) BY <3>2, MaterialsAssumption DEF Fitting, Sources, Urls
    <3> HIDE DEF row
    <3> QED BY <1>4, <3>1, <3>3, Inserted
  <2>2. CASE same # {}
    <3> DEFINE j == Max(same)
               row == [sources[j] EXCEPT !.text = text, !.checksum = text]
    <3>1. same \in SUBSET (0 .. MaxSources)
      BY <1>4, MaterialsAssumption DEF SourceInv
    <3>2. j \in same
      <4> HIDE DEF same
      <4> QED BY <2>2, <3>1, MaxOf, MaterialsAssumption
    <3>3. sources' = [sources EXCEPT ![j].text = text, ![j].checksum = text] BY <1>3, <2>2
    <3>4. j \in DOMAIN sources /\ SourceThere(j) BY <3>2
    <3> HIDE DEF j
    <3>5. sources[j] \in Sources /\ sources[j].stored BY <1>4, <3>4, There DEF SourceThere
    <3>6. /\ row \in Sources /\ row.version = sources[j].version /\ row.parent = sources[j].parent
          /\ HasChecksum(row)
      BY <3>5 DEF Sources, HasChecksum
    <3>7. sources' = [sources EXCEPT ![j] = row] BY <1>4, <3>3, <3>4 DEF SourceInv
    <3> HIDE DEF row
    <3> QED BY <1>4, <3>4, <3>5, <3>6, <3>7, Rewritten
  <2> QED BY <2>1, <2>2
<1> QED BY <1>1, <1>2, <1>5, ReviewsStay DEF AgentInv

LEMMA ConnectEvidenceStep ==
  ASSUME AgentInv, NEW c \in Commands, ConnectEvidence(c)
  PROVE  AgentInv'
<1>1. Tables' /\ CommandsInv' /\ CommandsStay
  BY FirstMade DEF AgentInv, ConnectEvidence
<1> QED BY <1>1, SourcesSame, ReviewsStay DEF AgentInv, ConnectEvidence, materialVars

LEMMA StartReviewStep ==
  ASSUME AgentInv, NEW c \in Commands, StartReview(c)
  PROVE  AgentInv'
<1> DEFINE i == command[c].source
<1>1. /\ Executing(c) /\ "review" \in NextEffect(c)
      /\ SourceThere(i)
      /\ command[c].checksum # {} => sources[i].checksum \in command[c].checksum
      /\ Enqueue(i, c)
      /\ made' = [made EXCEPT ![c]["review"] = @ + 1]
      /\ Step(c)
      /\ UNCHANGED <<command, missed, sources, outside>>
  BY DEF StartReview, SameAsConfirmed, ReviewSourceThere
<1>2. Posted(c) /\ "review" \in Effects BY <1>1, Next_ DEF AgentInv
<1>3. made[c]["review"] \in Nat BY <1>2 DEF AgentInv, Tables
<1>4. Tables' /\ CommandsInv' /\ CommandsStay
  <2> DEFINE n == made[c]["review"] + 1
  <2>1. "review" \notin LookedUp BY DEF LookedUp
  <2>4. UNCHANGED <<command, missed>> BY <1>1
  <2>2. n \in Nat /\ n > 0 BY <1>3
  <2>3. made' = [made EXCEPT ![c]["review"] = n] BY <1>1
  <2> HIDE DEF n
  <2> QED BY <1>1, <2>1, <2>2, <2>3, <2>4, EffectMade DEF AgentInv
<1>5. Allowed(c, sources[i].text)
  <2>1. command[c].checksum \in {{}} \cup {{t} : t \in Texts} BY <1>2, RowOf DEF AgentInv, CommandRows
  <2>2. sources[i].checksum \in Texts => sources[i].checksum = sources[i].text
    BY <1>1, There, MaterialsAssumption DEF AgentInv, HasChecksum
  <2> QED BY <1>1, <2>1, <2>2 DEF Allowed
<1>6. ReviewInv' BY <1>1, <1>2, <1>4, <1>5, ReviewEnqueued DEF AgentInv
<1> QED BY <1>1, <1>4, <1>6, SourcesSame DEF AgentInv

\* The plan is done.
LEMMA PlanDone ==
  ASSUME Tables, CommandsInv, NEW c \in Commands, Executing(c), NextEffect(c) = {}
  PROVE  \A i \in DOMAIN PlanOf(c) : PlanOf(c)[i] \in Made(c)
<1>1. Posted(c) /\ ExecutionInv(c) BY DEF CommandsInv, CommandInv
<1>2. execution[c].at \notin DOMAIN PlanOf(c) BY DEF NextEffect, PlanOf
<1>3. execution[c].at \in 1 .. 3 BY RowOf DEF Executions
<1>4. command[c].action \in Actions BY <1>1, RowOf
<1>5. DOMAIN PlanOf(c) \subseteq {1, 2} /\ (2 \in DOMAIN PlanOf(c) => 1 \in DOMAIN PlanOf(c))
  BY <1>4, Plans DEF PlanOf
<1>6. \A i \in DOMAIN PlanOf(c) : i < execution[c].at BY <1>2, <1>3, <1>5
<1> QED BY <1>1, <1>6 DEF ExecutionInv, Before

LEMMA EndStep ==
  ASSUME AgentInv, NEW c \in Commands, RefuseReview(c) \/ Complete(c) \/ FailCommand(c)
  PROVE  AgentInv'
<1>1. PICK status \in CommandStatus : Finish(c, status) /\ (status = "completed" => NextEffect(c) = {})
  BY DEF RefuseReview, Complete, FailCommand, CommandStatus
<1>2. Executing(c) /\ UNCHANGED <<made, missed, materialVars>> BY DEF RefuseReview, Complete, FailCommand
<1>3. Tables' /\ CommandsInv' /\ CommandsStay
  BY <1>1, <1>2, PlanDone, FinishStep DEF AgentInv
<1> QED BY <1>2, <1>3, SourcesSame, ReviewsStay DEF AgentInv, materialVars

LEMMA CrashStep ==
  ASSUME AgentInv, AgentCrash
  PROVE  AgentInv'
<1>1. UNCHANGED <<command, made, missed, materialVars>> /\ execution' = [c \in Commands |-> NoCommand]
  BY DEF AgentCrash
<1>2. Tables' /\ CommandsStay BY <1>1 DEF AgentInv, Tables, CommandsStay, Posted
<1>3. CommandsInv'
  <2> SUFFICES ASSUME NEW c \in Commands PROVE CommandInv(c)' BY DEF CommandsInv
  <2>1. CommandInv(c) BY DEF AgentInv, CommandsInv
  <2>2. ~ Executing(c)' BY <1>1 DEF Executing
  <2>3. /\ Made(c)' = Made(c) /\ Missed(c)' = Missed(c)
        /\ command'[c] = command[c] /\ made'[c] = made[c] /\ missed'[c] = missed[c]
    BY <1>1 DEF Made, Missed
  <2> QED BY <2>1, <2>2, <2>3 DEF CommandInv, ConfirmedInv, ExecutionInv, Posted, PlanOf
<1> QED BY <1>1, <1>2, <1>3, SourcesSame, ReviewsStay DEF AgentInv, materialVars

-----------------------------------------------------------------------------
(* The theorems. *)

LEMMA AgentStep ==
  ASSUME AgentInv, AgentNext
  PROVE  AgentInv'
<1>1. ASSUME NEW c \in Commands, NEW action \in Actions, PostMessage(c, action) PROVE AgentInv'
  BY <1>1, PostStep
<1>2. ASSUME NEW c \in Commands, ConfirmTask(c) PROVE AgentInv' BY <1>2, ConfirmStep
<1>3. ASSUME NEW c \in Commands, DismissTask(c) PROVE AgentInv' BY <1>3, DismissStep
<1>4. ASSUME NEW c \in Commands, LookUp(c) PROVE AgentInv' BY <1>4, LookUpStep
<1>5. ASSUME NEW c \in Commands, Create(c) PROVE AgentInv' BY <1>5, CreateStep
<1>6. ASSUME NEW c \in Commands, ConnectSource(c) PROVE AgentInv' BY <1>6, ConnectSourceStep
<1>7. ASSUME NEW c \in Commands, ConnectEvidence(c) PROVE AgentInv' BY <1>7, ConnectEvidenceStep
<1>8. ASSUME NEW c \in Commands, StartReview(c) PROVE AgentInv' BY <1>8, StartReviewStep
<1>9. ASSUME NEW c \in Commands, RefuseReview(c) \/ Complete(c) \/ FailCommand(c) PROVE AgentInv'
  BY <1>9, EndStep
<1> QED
  BY <1>1, <1>2, <1>3, <1>4, <1>5, <1>6, <1>7, <1>8, <1>9, CrashStep DEF AgentNext

LEMMA AgentStuttered ==
  ASSUME AgentInv, UNCHANGED <<materialVars, agentVars>>
  PROVE  AgentInv'
<1>1. UNCHANGED <<sources, reviews, outside>> BY DEF materialVars
<1>2. Tables' /\ CommandsInv' /\ CommandsStay BY CommandsSame DEF AgentInv
<1> QED BY <1>1, <1>2, SourcesSame, ReviewsStay DEF AgentInv

LEMMA AgentInvHolds ==
  ProjectSpec => []AgentInv
<1>1. MaterialsInit /\ AgentInit => AgentInv BY AgentInitHolds
<1>2. AgentInv /\ [ProjectNext]_<<materialVars, agentVars>> => AgentInv'
  BY AgentStep, MaterialsStep, AgentStuttered DEF ProjectNext
<1> QED BY <1>1, <1>2, PTL DEF ProjectSpec

\* Whatever members do to the sources of a project while commands rewrite one: a source that
\* is there carries the checksum of its text or none at all, and a version has a number above that of the
\* one it was made from (materials.py, command_gateway.py _connect_feishu).
THEOREM HistoryIsKept ==
  ProjectSpec => []SourceHistory
<1>1. AgentInv => SourceHistory BY DEF AgentInv, SourceInv
<1> QED BY <1>1, AgentInvHolds, PTL

\* A review that a command started from a pasted text reads the text that the command was
\* posted with, if it was posted with a checksum, whoever rewrote the source in between
\* (command_gateway.py _start_review).
THEOREM ReviewsTheText ==
  ProjectSpec => []TextAsConfirmed
<1>1. AgentInv => TextAsConfirmed
  <2> SUFFICES ASSUME AgentInv, NEW r \in DOMAIN reviews, reviews[r].command # Nobody, reviews[r].url = NoUrl
               PROVE  \/ reviews[r].reviewed \subseteq command[reviews[r].command].checksum
                      \/ command[reviews[r].command].checksum = {}
    BY DEF TextAsConfirmed
  <2> QED BY DEF AgentInv, ReviewInv, Allowed
<1> QED BY <1>1, AgentInvHolds, PTL

-----------------------------------------------------------------------------
(* Connections. *)

(* The inductive invariant. *)

\* The secrets of the row of p are those given last, or empty where they could not be read
\* when it was written; and those given last if no other key has been used.
RowKept(p) ==
  /\ rows[p].key \in keysUsed[p]
  /\ \A r \in Roles : rows[p].secrets[r] \in {given[p][r], Unset}
  /\ keysUsed[p] = {rows[p].key} => rows[p].secrets = given[p]

\* A project without a row was given nothing under any key.
RowInv ==
  \A p \in Projects :
    IF rows[p] = NoRow THEN given[p] = Blank /\ keysUsed[p] = {} ELSE RowKept(p)

\* A task was followed by its mark or by the death of the handler.
EventTaskInv == \A t \in queued : t.event \in marked \cup cut

ConnectionsInv == ConnectionsTypeOK /\ RowInv /\ EventTaskInv /\ OneHome

-----------------------------------------------------------------------------
(* What is read of a row. *)

LEMMA ReadableType ==
  ASSUME ConnectionsTypeOK, NEW p \in Projects
  PROVE  Readable(p) \in [Roles -> Values]
<1>1. Blank \in [Roles -> Values] BY DEF Blank, Values
<1>2. rows[p] # NoRow => rows[p].secrets \in [Roles -> Values]
  BY DEF ConnectionsTypeOK, ConnectorRows
<1> QED BY <1>1, <1>2 DEF Readable

\* Under the master key of the process the row reads as it was given, if it was written
\* under no other.
LEMMA ReadableKept ==
  ASSUME ConnectionsTypeOK, RowInv, NEW p \in Projects
  PROVE  /\ \A r \in Roles : Readable(p)[r] \in {given[p][r], Unset}
         /\ keysUsed[p] \subseteq {master} => Readable(p) = given[p]
<1>1. CASE rows[p] = NoRow
  BY <1>1 DEF RowInv, Readable, Blank
<1>2. CASE rows[p] # NoRow
  <2>1. RowKept(p) BY <1>2 DEF RowInv
  <2>2. \A r \in Roles : Readable(p)[r] \in {given[p][r], Unset}
    BY <2>1 DEF RowKept, Readable, Blank
  <2>3. ASSUME keysUsed[p] \subseteq {master} PROVE Readable(p) = given[p]
    <3>1. keysUsed[p] = {rows[p].key} /\ rows[p].key = master BY <2>1, <2>3 DEF RowKept
    <3> QED BY <1>2, <2>1, <3>1 DEF RowKept, Readable
  <2> QED BY <2>2, <2>3
<1> QED BY <1>1, <1>2

\* A row that is written with secrets that agree with what has been given is kept.
LEMMA WriteKept ==
  ASSUME ConnectionsInv, NEW p \in Projects, NEW secrets \in [Roles -> Values], NEW docs \in SUBSET Docs,
         WriteRow(p, secrets, docs),
         given' \in [Projects -> [Roles -> Values]],
         \A q \in Projects \ {p} : given'[q] = given[q],
         \A r \in Roles : secrets[r] \in {given'[p][r], Unset},
         keysUsed[p] \subseteq {master} => secrets = given'[p]
  PROVE  /\ rows' \in [Projects -> ConnectorRows \cup {NoRow}]
         /\ keysUsed' \in [Projects -> SUBSET MasterKeys]
         /\ RowInv'
<1>1. master \in MasterKeys
  BY DEF ConnectionsInv, ConnectionsTypeOK, WriteRow
<1>2. NewRow(secrets, docs) \in ConnectorRows
  BY <1>1 DEF NewRow, ConnectorRows
<1>3. rows' \in [Projects -> ConnectorRows \cup {NoRow}]
  BY <1>2 DEF ConnectionsInv, ConnectionsTypeOK, WriteRow
<1>4. keysUsed' \in [Projects -> SUBSET MasterKeys]
  BY <1>1 DEF ConnectionsInv, ConnectionsTypeOK, WriteRow
<1>5. ASSUME NEW q \in Projects
      PROVE  IF rows'[q] = NoRow THEN given'[q] = Blank /\ keysUsed'[q] = {} ELSE RowKept(q)'
  <2>1. CASE q # p
    <3>1. rows'[q] = rows[q] /\ keysUsed'[q] = keysUsed[q] /\ given'[q] = given[q]
      BY <2>1 DEF ConnectionsInv, ConnectionsTypeOK, WriteRow
    <3> QED BY <3>1 DEF ConnectionsInv, RowInv, RowKept
  <2>2. CASE q = p
    <3>1. rows'[p] = NewRow(secrets, docs) /\ keysUsed'[p] = keysUsed[p] \cup {master}
      BY DEF ConnectionsInv, ConnectionsTypeOK, WriteRow
    <3>2. rows'[p] # NoRow BY <1>2, <3>1, ConnectionsAssumption
    <3>3. rows'[p].secrets = secrets /\ rows'[p].key = master BY <3>1 DEF NewRow
    <3> QED BY <2>2, <3>1, <3>2, <3>3 DEF RowKept
  <2> QED BY <2>1, <2>2
<1> QED BY <1>3, <1>4, <1>5 DEF RowInv

-----------------------------------------------------------------------------
(* The steps. *)

LEMMA PutConfigStep ==
  ASSUME ConnectionsInv, NEW p \in Projects, PutConfig(p)
  PROVE  ConnectionsInv'
<1>1. PICK named \in NamedSecrets, docs \in NamedDocs(p) :
        /\ WriteRow(p, Merged(p, named), docs)
        /\ given' = [given EXCEPT ![p] =
             [r \in Roles |-> IF named[r] = Unset THEN @[r] ELSE named[r]]]
  BY DEF PutConfig
<1>2. docs \in SUBSET Docs
  BY DEF ConnectionsInv, ConnectionsTypeOK, NamedDocs, Mapped, ConnectorRows
<1>3. Merged(p, named) \in [Roles -> Values]
  BY ReadableType DEF ConnectionsInv, Merged, NamedSecrets
<1>4. given' \in [Projects -> [Roles -> Values]]
  BY <1>1 DEF ConnectionsInv, ConnectionsTypeOK, NamedSecrets
<1>5. \A q \in Projects \ {p} : given'[q] = given[q]
  BY <1>1 DEF ConnectionsInv, ConnectionsTypeOK
<1>6. given'[p] = [r \in Roles |-> IF named[r] = Unset THEN given[p][r] ELSE named[r]]
  BY <1>1 DEF ConnectionsInv, ConnectionsTypeOK
<1>7. /\ \A r \in Roles : Readable(p)[r] \in {given[p][r], Unset}
      /\ keysUsed[p] \subseteq {master} => Readable(p) = given[p]
  BY ReadableKept DEF ConnectionsInv
<1>8. \A r \in Roles : Merged(p, named)[r] \in {given'[p][r], Unset}
  BY <1>6, <1>7 DEF Merged
<1>9. keysUsed[p] \subseteq {master} => Merged(p, named) = given'[p]
  BY <1>6, <1>7 DEF Merged
<1>10. /\ rows' \in [Projects -> ConnectorRows \cup {NoRow}]
       /\ keysUsed' \in [Projects -> SUBSET MasterKeys]
       /\ RowInv'
  BY <1>1, <1>2, <1>3, <1>4, <1>5, <1>8, <1>9, WriteKept
<1>11. puts' \in 0 .. MaxPuts
  BY ConnectionsAssumption DEF ConnectionsInv, ConnectionsTypeOK, PutConfig
<1> QED BY <1>4, <1>10, <1>11 DEF ConnectionsInv, ConnectionsTypeOK, EventTaskInv, OneHome, PutConfig

LEMMA TouchSyncedStep ==
  ASSUME ConnectionsInv, NEW p \in Projects, TouchSynced(p)
  PROVE  ConnectionsInv'
<1>1. WriteRow(p, Readable(p), Mapped(p)) /\ given' = given
  BY DEF TouchSynced
<1>2. Mapped(p) \in SUBSET Docs
  BY DEF ConnectionsInv, ConnectionsTypeOK, Mapped, ConnectorRows
<1>3. Readable(p) \in [Roles -> Values]
  BY ReadableType DEF ConnectionsInv
<1>4. given' \in [Projects -> [Roles -> Values]] /\ \A q \in Projects : given'[q] = given[q]
  BY <1>1 DEF ConnectionsInv, ConnectionsTypeOK
<1>5. /\ \A r \in Roles : Readable(p)[r] \in {given'[p][r], Unset}
      /\ keysUsed[p] \subseteq {master} => Readable(p) = given'[p]
  BY <1>1, ReadableKept DEF ConnectionsInv
<1>6. /\ rows' \in [Projects -> ConnectorRows \cup {NoRow}]
      /\ keysUsed' \in [Projects -> SUBSET MasterKeys]
      /\ RowInv'
  BY <1>1, <1>2, <1>3, <1>4, <1>5, WriteKept
<1> QED BY <1>4, <1>6 DEF ConnectionsInv, ConnectionsTypeOK, EventTaskInv, OneHome, TouchSynced

LEMMA RestartStep ==
  ASSUME ConnectionsInv, NEW key \in MasterKeys \cup {NoKey}, RestartWith(key)
  PROVE  ConnectionsInv'
BY DEF ConnectionsInv, ConnectionsTypeOK, RowInv, RowKept, EventTaskInv, OneHome, RestartWith

LEMMA EmitEventStep ==
  ASSUME ConnectionsInv, EmitEvent
  PROVE  ConnectionsInv'
<1>1. PICK d \in Docs, s \in Secrets : events' = Append(events, [doc |-> d, signed |-> s])
  BY DEF EmitEvent
<1>2. events' \in Seq([doc : Docs, signed : Secrets]) /\ DOMAIN events \subseteq DOMAIN events'
  BY <1>1 DEF ConnectionsInv, ConnectionsTypeOK
<1> QED BY <1>2 DEF ConnectionsInv, ConnectionsTypeOK, RowInv, RowKept, EventTaskInv, OneHome, EmitEvent

LEMMA DeliverEventStep ==
  ASSUME ConnectionsInv, NEW n \in DOMAIN events, DeliverEvent(n)
  PROVE  ConnectionsInv'
<1>1. PICK p \in Projects : queued' = queued \cup {[event |-> n, project |-> p]}
  BY DEF DeliverEvent, Homes
<1>2. n \notin marked BY DEF DeliverEvent
<1>3. /\ marked \subseteq marked' /\ cut \subseteq cut'
      /\ n \in marked' \cup cut'
      /\ marked' \subseteq DOMAIN events /\ cut' \subseteq DOMAIN events
  BY DEF DeliverEvent, ConnectionsInv, ConnectionsTypeOK
<1>4. ConnectionsTypeOK'
  BY <1>1, <1>3 DEF ConnectionsInv, ConnectionsTypeOK, DeliverEvent
<1>5. EventTaskInv'
  <2>1. ASSUME NEW t \in queued PROVE t.event \in marked' \cup cut'
    BY <1>3 DEF ConnectionsInv, EventTaskInv
  <2>2. [event |-> n, project |-> p].event \in marked' \cup cut'
    BY <1>3
  <2> QED BY <1>1, <2>1, <2>2 DEF EventTaskInv
<1>6. \A t \in queued : t.event = n => n \in cut'
  BY <1>2, <1>3 DEF ConnectionsInv, EventTaskInv
<1>7. OneHome'
  BY <1>1, <1>3, <1>6 DEF ConnectionsInv, OneHome
<1>8. RowInv'
  BY DEF ConnectionsInv, RowInv, RowKept, DeliverEvent
<1> QED BY <1>4, <1>5, <1>7, <1>8 DEF ConnectionsInv

LEMMA ConnectionsInitHolds == ConnectionsInit => ConnectionsInv
BY ConnectionsAssumption
DEF ConnectionsInit, ConnectionsInv, ConnectionsTypeOK, RowInv, EventTaskInv, OneHome, Blank, Values

LEMMA ConnectionsStep == ConnectionsInv /\ [ConnectionsNext]_connectionVars => ConnectionsInv'
<1> SUFFICES ASSUME ConnectionsInv, [ConnectionsNext]_connectionVars PROVE ConnectionsInv'
  OBVIOUS
<1>1. CASE \E p \in Projects : PutConfig(p) \/ TouchSynced(p)
  BY <1>1, PutConfigStep, TouchSyncedStep
<1>2. CASE \E key \in MasterKeys \cup {NoKey} : RestartWith(key)
  BY <1>2, RestartStep
<1>3. CASE EmitEvent
  BY <1>3, EmitEventStep
<1>4. CASE \E n \in DOMAIN events : DeliverEvent(n)
  BY <1>4, DeliverEventStep
<1>5. CASE UNCHANGED connectionVars
  BY <1>5 DEF ConnectionsInv, ConnectionsTypeOK, RowInv, RowKept, EventTaskInv, OneHome, connectionVars
<1> QED BY <1>1, <1>2, <1>3, <1>4, <1>5 DEF ConnectionsNext

LEMMA ConnectionsInvHolds == ConnectionsSpec => []ConnectionsInv
BY ConnectionsInitHolds, ConnectionsStep, PTL DEF ConnectionsSpec

-----------------------------------------------------------------------------
\* The variables keep their types: a row is encrypted under a master key, and a task is of
\* an event and a project there are (config_store.py, events.py).
THEOREM ConnectionsTypes == ConnectionsSpec => []ConnectionsTypeOK
<1>1. ConnectionsInv => ConnectionsTypeOK BY DEF ConnectionsInv
<1> QED BY <1>1, ConnectionsInvHolds, PTL

\* Whatever requests name and leave out, under however many master keys the process runs
\* and syncs end: a secret reads as given last or as empty, and as given when no other key
\* wrote the row; and an event has its tasks in one project, unless its handler died
\* between the task and the mark (config_store.py upsert, touch_last_synced_at; events.py).
THEOREM SettingsAreKept == ConnectionsSpec => []SettingsKept
<1>1. ConnectionsInv => SettingsKept
  <2> SUFFICES ASSUME ConnectionsInv PROVE SettingsKept
    OBVIOUS
  <2>1. SecretsKept
    BY ReadableKept DEF ConnectionsInv, SecretsKept
  <2> QED BY <2>1 DEF ConnectionsInv, SettingsKept
<1> QED BY <1>1, ConnectionsInvHolds, PTL

-----------------------------------------------------------------------------
(* ConnectorSync: the inductive invariant. *)

\* The key of an event with an id, which is the number of an edit.
OfEvent(k) == k.suffix \in 1 .. MaxEdits

\* A task of an event is there only after the edit, for a page the edit changed.
SyncTaskInv ==
  \A k \in Keys : OfEvent(k) /\ Queued(k) =>
    /\ k.suffix \in DOMAIN edits /\ k.pages \subseteq edits[k.suffix]
    /\ syncTasks[k].status = "completed" => \A p \in k.pages : versions[p] >= k.suffix

\* A run for an event compares no time: what it fetched is no older than the event, and
\* the pages it is done with are stored.
FlightInv ==
  \A k \in Keys : Flying(k) =>
    /\ Queued(k) /\ flights[k].left \subseteq k.pages
    /\ \A g \in flights[k].got : g.page \in k.pages
    /\ OfEvent(k) =>
         /\ flights[k].since = 0
         /\ \A g \in flights[k].got : g.edit >= k.suffix
         /\ \A p \in k.pages \ flights[k].left : versions[p] >= k.suffix

ProcessedInv ==
  \A n \in processed : \A p \in edits[n] : Queued([pages |-> {p}, suffix |-> n])

SyncInv == SyncTypeOK /\ SyncTaskInv /\ FlightInv /\ ProcessedInv

-----------------------------------------------------------------------------
LEMMA EventKey ==
  ASSUME NEW p \in Pages, NEW n \in 1 .. MaxEdits
  PROVE  [pages |-> {p}, suffix |-> n] \in Keys
BY DEF Keys

LEMMA KeyPages ==
  ASSUME NEW k \in Keys
  PROVE  k.pages \subseteq Pages
BY DEF Keys

LEMMA EditNumbers ==
  ASSUME SyncTypeOK
  PROVE  /\ Now \in 0 .. MaxEdits /\ DOMAIN edits = 1 .. Now /\ DOMAIN edits \subseteq 1 .. MaxEdits
         /\ \A n \in DOMAIN edits : edits[n] \subseteq Pages
BY SyncAssumption DEF SyncTypeOK, Now

\* The newest edit of a page is one of its edits, and no edit of it is newer.
LEMMA LastEditIs ==
  ASSUME SyncTypeOK, NEW p \in Pages
  PROVE  /\ LastEdit(p) \in 0 .. Now
         /\ \A n \in DOMAIN edits : p \in edits[n] => n <= LastEdit(p)
<1> DEFINE S == {0} \cup {n \in DOMAIN edits : p \in edits[n]}
<1>1. Now \in Nat /\ DOMAIN edits = 1 .. Now BY EditNumbers
<1>2. S \in SUBSET (0 .. Now) /\ S # {} BY <1>1
<1>3. \A n \in DOMAIN edits : p \in edits[n] => n \in S OBVIOUS
<1>4. LastEdit(p) = Max(S) BY DEF LastEdit
<1> HIDE DEF S
<1> QED BY <1>1, <1>2, <1>3, <1>4, MaxOf

LEMMA MaxOfTwo ==
  ASSUME NEW N \in Nat, NEW a \in 0 .. N, NEW b \in 0 .. N
  PROVE  Max({a, b}) \in 0 .. N /\ Max({a, b}) >= a /\ Max({a, b}) >= b
<1> DEFINE S == {a, b}
<1>1. S \in SUBSET (0 .. N) /\ S # {} /\ a \in S /\ b \in S OBVIOUS
<1> HIDE DEF S
<1>2. Max(S) \in S /\ \A x \in S : x <= Max(S) BY <1>1, MaxOf
<1>3. Max(S) \in 0 .. N /\ a <= Max(S) /\ b <= Max(S) BY <1>1, <1>2
<1>4. Max(S) >= a /\ Max(S) >= b BY <1>3
<1> QED BY <1>3, <1>4 DEF S

LEMMA PendingIsTask == [status |-> "pending", attempts |-> 0] \in Tasks
BY SyncAssumption DEF Tasks, SyncStatus

-----------------------------------------------------------------------------
(* ConnectorSync: the steps. *)

\* Tasks are queued for keys that say what was edited, or are of no event.
LEMMA EnqueueStep ==
  ASSUME SyncInv, NEW keys \in SUBSET Keys, EnqueueTasks(keys),
         \A k \in keys : OfEvent(k) => k.suffix \in DOMAIN edits /\ k.pages \subseteq edits[k.suffix],
         UNCHANGED <<edits, flights, versions, lastSynced>>
  PROVE  /\ syncTasks' \in [Keys -> Tasks \cup {NoTask}]
         /\ \A k \in keys : Queued(k)'
         /\ \A k \in Keys : Queued(k) => Queued(k)' /\ syncTasks'[k] = syncTasks[k]
         /\ SyncTaskInv' /\ FlightInv'
<1> DEFINE new == [status |-> "pending", attempts |-> 0]
<1>1. new \in Tasks /\ new # NoTask /\ new.status = "pending" BY PendingIsTask, SyncAssumption
<1> HIDE DEF new
<1>2. syncTasks' = [k \in Keys |-> IF k \in keys /\ ~ Queued(k) THEN new ELSE syncTasks[k]]
  BY DEF EnqueueTasks, Enqueued, new
<1>3. \A k \in Keys : syncTasks'[k] = IF k \in keys /\ ~ Queued(k) THEN new ELSE syncTasks[k]
  BY <1>2
<1>4. syncTasks' \in [Keys -> Tasks \cup {NoTask}]
  BY <1>1, <1>2 DEF SyncInv, SyncTypeOK
<1>5. \A k \in keys : Queued(k)' BY <1>1, <1>3 DEF Queued
<1>6. \A k \in Keys : Queued(k) => Queued(k)' /\ syncTasks'[k] = syncTasks[k] BY <1>3 DEF Queued
<1>7. \A k \in Keys : Queued(k)' => Queued(k) \/ (k \in keys /\ syncTasks'[k].status = "pending")
  BY <1>1, <1>3 DEF Queued
<1>8. SyncTaskInv' BY <1>6, <1>7 DEF SyncInv, SyncTaskInv, OfEvent
<1>9. FlightInv' BY <1>6 DEF SyncInv, FlightInv, OfEvent, Flying
<1> QED BY <1>4, <1>5, <1>6, <1>8, <1>9

\* A handler queues tasks for some pages of an event.
LEMMA DeliverTasks ==
  ASSUME SyncInv, NEW n \in DOMAIN edits, NEW pages \in SUBSET edits[n]
  PROVE  /\ EventKeys(pages, n) \in SUBSET Keys
         /\ \A k \in EventKeys(pages, n) : k.suffix = n /\ k.pages \subseteq edits[n]
<1>1. edits[n] \subseteq Pages /\ n \in 1 .. MaxEdits BY EditNumbers DEF SyncInv
<1> QED BY <1>1, EventKey DEF EventKeys

LEMMA ProcessedStays ==
  ASSUME SyncInv, processed' = processed, edits' = edits,
         \A k \in Keys : Queued(k) => Queued(k)'
  PROVE  ProcessedInv'
<1> SUFFICES ASSUME NEW n \in processed, NEW p \in edits[n]
             PROVE  Queued([pages |-> {p}, suffix |-> n])'
  BY DEF ProcessedInv
<1>1. n \in 1 .. MaxEdits /\ p \in Pages BY EditNumbers DEF SyncInv, SyncTypeOK
<1>2. [pages |-> {p}, suffix |-> n] \in Keys BY <1>1, EventKey
<1>3. Queued([pages |-> {p}, suffix |-> n]) BY DEF SyncInv, ProcessedInv
<1> QED BY <1>2, <1>3

LEMMA DeliverStep ==
  ASSUME SyncInv, NEW n \in DOMAIN edits, Deliver(n)
  PROVE  SyncInv'
<1>1. PICK pages \in SUBSET edits[n] :
        /\ EnqueueTasks(EventKeys(pages, n))
        /\ (processed' = processed \/ (processed' = processed \cup {n} /\ pages = edits[n]))
  BY DEF Deliver
<1>2. UNCHANGED <<edits, flights, versions, lastSynced>> BY DEF Deliver
<1> DEFINE keys == EventKeys(pages, n)
<1>3. keys \in SUBSET Keys /\ \A k \in keys : OfEvent(k) => k.suffix \in DOMAIN edits /\ k.pages \subseteq edits[k.suffix]
  BY DeliverTasks
<1>4. \A p \in pages : [pages |-> {p}, suffix |-> n] \in keys BY DEF EventKeys
<1> HIDE DEF keys
<1>5. EnqueueTasks(keys) BY <1>1 DEF keys
<1>6. /\ syncTasks' \in [Keys -> Tasks \cup {NoTask}]
      /\ \A k \in keys : Queued(k)'
      /\ \A k \in Keys : Queued(k) => Queued(k)'
      /\ SyncTaskInv' /\ FlightInv'
  BY <1>2, <1>3, <1>5, EnqueueStep
<1>7. SyncTypeOK' BY <1>1, <1>2, <1>6 DEF SyncInv, SyncTypeOK, Now
<1>8. ProcessedInv'
  <2>1. CASE processed' = processed BY <1>2, <1>6, <2>1, ProcessedStays
  <2>2. CASE processed' = processed \cup {n} /\ pages = edits[n]
    <3> SUFFICES ASSUME NEW m \in processed', NEW p \in edits'[m]
                 PROVE  syncTasks'[[pages |-> {p}, suffix |-> m]] # NoTask
      BY DEF ProcessedInv, Queued
    <3>1. CASE m = n BY <1>2, <1>4, <1>6, <2>2, <3>1 DEF Queued
    <3>2. CASE m \in processed
      <4>1. m \in 1 .. MaxEdits /\ p \in Pages BY <1>2, <3>2, EditNumbers DEF SyncInv, SyncTypeOK
      <4>2. [pages |-> {p}, suffix |-> m] \in Keys BY <4>1, EventKey
      <4>3. Queued([pages |-> {p}, suffix |-> m]) BY <1>2, <3>2 DEF SyncInv, ProcessedInv
      <4> QED BY <1>6, <4>2, <4>3 DEF Queued
    <3> QED BY <2>2, <3>1, <3>2
  <2> QED BY <1>1, <2>1, <2>2
<1> QED BY <1>6, <1>7, <1>8 DEF SyncInv

\* DeliverAnonymous and RequestSync: tasks that are of no event with an id.
LEMMA OtherTasks ==
  ASSUME SyncInv, NEW keys \in SUBSET Keys, EnqueueTasks(keys), \A k \in keys : ~ OfEvent(k),
         UNCHANGED <<edits, processed, flights, versions, lastSynced>>
  PROVE  SyncInv'
<1>1. /\ syncTasks' \in [Keys -> Tasks \cup {NoTask}]
      /\ \A k \in Keys : Queued(k) => Queued(k)'
      /\ SyncTaskInv' /\ FlightInv'
  BY EnqueueStep
<1>2. SyncTypeOK' BY <1>1 DEF SyncInv, SyncTypeOK, Now
<1> QED BY <1>1, <1>2, ProcessedStays DEF SyncInv

LEMMA AnonymousStep ==
  ASSUME SyncInv, NEW n \in DOMAIN edits, DeliverAnonymous(n)
  PROVE  SyncInv'
<1> DEFINE keys == EventKeys(edits[n], Webhook)
<1>1. edits[n] \subseteq Pages BY EditNumbers DEF SyncInv
<1>2. keys \in SUBSET Keys BY <1>1 DEF EventKeys, Keys
<1>3. \A k \in keys : ~ OfEvent(k) BY SyncAssumption DEF EventKeys, OfEvent
<1> HIDE DEF keys
<1>4. EnqueueTasks(keys) /\ UNCHANGED <<edits, processed, flights, versions, lastSynced>>
  BY DEF DeliverAnonymous, keys
<1> QED BY <1>2, <1>3, <1>4, OtherTasks

LEMMA RequestStep ==
  ASSUME SyncInv, NEW pages \in {Pages} \cup {{p} : p \in Pages}, RequestSync(pages)
  PROVE  SyncInv'
<1> DEFINE keys == {[pages |-> pages, suffix |-> Manual]}
<1>1. keys \in SUBSET Keys BY DEF Keys
<1>2. \A k \in keys : ~ OfEvent(k) BY SyncAssumption DEF OfEvent
<1> HIDE DEF keys
<1>3. EnqueueTasks(keys) /\ UNCHANGED <<edits, processed, flights, versions, lastSynced>>
  BY DEF RequestSync, keys
<1> QED BY <1>1, <1>2, <1>3, OtherTasks

LEMMA EditPagesStep == ASSUME SyncInv, EditPages PROVE SyncInv'
<1>1. PICK changed \in SUBSET Pages \ {{}} : edits' = Append(edits, changed)
  BY DEF EditPages
<1>2. /\ Len(edits) < MaxEdits /\ UNCHANGED <<processed, syncTasks, flights, versions, lastSynced>>
  BY DEF EditPages, Now
<1>3. edits \in Seq(SUBSET Pages \ {{}}) BY DEF SyncInv, SyncTypeOK
<1>4. /\ edits' \in Seq(SUBSET Pages \ {{}}) /\ Len(edits') = Len(edits) + 1
      /\ DOMAIN edits \subseteq DOMAIN edits'
      /\ \A n \in DOMAIN edits : edits'[n] = edits[n]
  BY <1>1, <1>3
<1>5. SyncTypeOK'
  BY <1>2, <1>3, <1>4, SyncAssumption DEF SyncInv, SyncTypeOK, Now
<1>6. SyncTaskInv' BY <1>2, <1>4 DEF SyncInv, SyncTaskInv, Queued, OfEvent
<1>7. FlightInv' BY <1>2 DEF SyncInv, FlightInv, Queued, Flying, OfEvent
<1>8. ProcessedInv' BY <1>2, <1>4 DEF SyncInv, SyncTypeOK, ProcessedInv, Queued
<1> QED BY <1>5, <1>6, <1>7, <1>8 DEF SyncInv

\* What a run finds.
LEMMA InFlight ==
  ASSUME SyncInv, NEW k \in Keys, Flying(k)
  PROVE  /\ flights[k] \in Flights /\ flights \in [Keys -> Flights \cup {NoTask}]
         /\ syncTasks[k] \in Tasks /\ syncTasks \in [Keys -> Tasks \cup {NoTask}] /\ Queued(k)
BY DEF SyncInv, SyncTypeOK, FlightInv, Flying, Queued

LEMMA StartSyncStep ==
  ASSUME SyncInv, NEW k \in Keys, StartSync(k)
  PROVE  SyncInv'
<1> DEFINE task == [syncTasks[k] EXCEPT !.status = "running", !.attempts = @ + 1]
           flight == [left |-> k.pages, got |-> {}, stored |-> FALSE,
                      since |-> IF k.suffix = Manual THEN lastSynced ELSE 0]
<1>1. /\ Queued(k) /\ syncTasks[k].attempts < MaxRuns
      /\ syncTasks \in [Keys -> Tasks \cup {NoTask}] /\ syncTasks[k] \in Tasks
      /\ flights \in [Keys -> Flights \cup {NoTask}]
      /\ UNCHANGED <<edits, processed, versions, lastSynced>>
  BY DEF StartSync, SyncInv, SyncTypeOK, Queued
<1>2. syncTasks' = [syncTasks EXCEPT ![k] = task] /\ flights' = [flights EXCEPT ![k] = flight]
  BY <1>1 DEF StartSync
<1>3. task \in Tasks /\ task.status = "running"
  <2>1. syncTasks[k].attempts + 1 \in 0 .. MaxRuns
    <3>1. syncTasks[k].attempts \in 0 .. MaxRuns BY <1>1 DEF Tasks
    <3> QED BY <1>1, <3>1, SyncAssumption
  <2> DEFINE more == syncTasks[k].attempts + 1
  <2>2. task = [syncTasks[k] EXCEPT !.status = "running", !.attempts = more] OBVIOUS
  <2>3. more \in 0 .. MaxRuns /\ "running" \in SyncStatus BY <2>1 DEF SyncStatus
  <2> HIDE DEF more, task
  <2> QED BY <1>1, <2>2, <2>3 DEF Tasks
<1>4. lastSynced \in 0 .. MaxEdits
  BY EditNumbers, SyncAssumption DEF SyncInv, SyncTypeOK
<1>5. /\ flight \in Flights /\ flight.left = k.pages /\ flight.got = {}
      /\ OfEvent(k) => flight.since = 0
  BY <1>4, KeyPages, SyncAssumption DEF Flights, OfEvent
<1> HIDE DEF task, flight
<1>6. /\ syncTasks'[k] = task /\ \A j \in Keys \ {k} : syncTasks'[j] = syncTasks[j]
      /\ flights'[k] = flight /\ \A j \in Keys \ {k} : flights'[j] = flights[j]
  BY <1>1, <1>2
<1>7. \A j \in Keys : Queued(j)' <=> Queued(j)
  BY <1>1, <1>3, <1>6, SyncAssumption DEF Queued
<1>8. SyncTypeOK' BY <1>1, <1>2, <1>3, <1>5 DEF SyncInv, SyncTypeOK, Now
<1>9. SyncTaskInv' BY <1>1, <1>3, <1>6, <1>7 DEF SyncInv, SyncTaskInv, OfEvent
<1>10. FlightInv'
  BY <1>1, <1>5, <1>6, <1>7 DEF SyncInv, FlightInv, Flying, OfEvent
<1>11. ProcessedInv' BY <1>1, <1>7, ProcessedStays DEF SyncInv
<1> QED BY <1>8, <1>9, <1>10, <1>11 DEF SyncInv

\* A run goes on with its pages; versions only grow.
LEMMA FlightStep ==
  ASSUME SyncInv, NEW k \in Keys, Flying(k), NEW flight \in Flights,
         flights' = [flights EXCEPT ![k] = flight],
         flight.left \subseteq k.pages, \A g \in flight.got : g.page \in k.pages,
         OfEvent(k) => /\ flight.since = 0
                       /\ \A g \in flight.got : g.edit >= k.suffix
                       /\ \A p \in k.pages \ flight.left : versions'[p] >= k.suffix,
         versions' \in [Pages -> 0 .. MaxEdits], \A p \in Pages : versions'[p] >= versions[p],
         UNCHANGED <<edits, processed, syncTasks, lastSynced>>
  PROVE  SyncInv'
<1>1. /\ flights \in [Keys -> Flights \cup {NoTask}] /\ Queued(k)
      /\ versions \in [Pages -> 0 .. MaxEdits] /\ MaxEdits \in Nat
  BY InFlight, SyncAssumption DEF SyncInv, SyncTypeOK
<1>2. flights'[k] = flight /\ \A j \in Keys \ {k} : flights'[j] = flights[j] BY <1>1
<1>3. \A j \in Keys : Queued(j)' <=> Queued(j) BY DEF Queued
<1>4. \A n \in 1 .. MaxEdits, p \in Pages : versions[p] >= n => versions'[p] >= n
  <2> SUFFICES ASSUME NEW n \in 1 .. MaxEdits, NEW p \in Pages, versions[p] >= n
               PROVE  versions'[p] >= n OBVIOUS
  <2>1. versions[p] \in Nat /\ versions'[p] \in Nat /\ versions'[p] >= versions[p] BY <1>1
  <2> HIDE <1>1
  <2> QED BY <2>1
<1>5. SyncTypeOK' BY <1>1 DEF SyncInv, SyncTypeOK, Now
<1>6. SyncTaskInv' BY <1>3, <1>4, KeyPages DEF SyncInv, SyncTaskInv, OfEvent
<1>7. FlightInv' BY <1>1, <1>2, <1>3, <1>4, KeyPages DEF SyncInv, FlightInv, Flying, OfEvent
<1>8. ProcessedInv' BY <1>3, ProcessedStays DEF SyncInv
<1> QED BY <1>5, <1>6, <1>7, <1>8 DEF SyncInv

LEMMA FetchPageStep ==
  ASSUME SyncInv, NEW k \in Keys, NEW p \in Pages, FetchPage(k, p)
  PROVE  SyncInv'
<1>1. /\ Flying(k) /\ flights[k].got = {} /\ p \in flights[k].left
      /\ UNCHANGED <<edits, processed, syncTasks, versions, lastSynced>>
  BY DEF FetchPage
<1>2. flights[k] \in Flights /\ flights \in [Keys -> Flights \cup {NoTask}] BY <1>1, InFlight
<1>3. LastEdit(p) \in 0 .. Now /\ \A n \in DOMAIN edits : p \in edits[n] => n <= LastEdit(p)
  BY LastEditIs DEF SyncInv
<1>4. /\ versions' \in [Pages -> 0 .. MaxEdits]
      /\ \A q \in Pages : versions'[q] >= versions[q]
  BY <1>1, SyncAssumption DEF SyncInv, SyncTypeOK
<1>5. OfEvent(k) => /\ flights[k].since = 0 /\ k.suffix \in DOMAIN edits
                    /\ k.pages \subseteq edits[k.suffix]
                    /\ \A q \in k.pages \ flights[k].left : versions[q] >= k.suffix
  BY <1>1 DEF SyncInv, SyncTaskInv, FlightInv
<1>6. CASE flights[k].since > 0 /\ LastEdit(p) <= flights[k].since
  <2> DEFINE flight == [flights[k] EXCEPT !.left = @ \ {p}]
  <2>1. flights' = [flights EXCEPT ![k] = flight] BY <1>2, <1>6 DEF FetchPage
  <2>2. flight \in Flights /\ flight.got = {} /\ flight.left = flights[k].left \ {p}
    BY <1>1, <1>2 DEF Flights
  <2>3. ~ OfEvent(k)
    <3>1. ~ (0 > 0) OBVIOUS
    <3> QED BY <1>5, <1>6, <3>1
  <2> HIDE DEF flight
  <2>4. flight.left \subseteq k.pages BY <1>1, <2>2 DEF SyncInv, FlightInv
  <2> QED BY <1>1, <1>4, <2>1, <2>2, <2>3, <2>4, FlightStep
<1>7. CASE ~ (flights[k].since > 0 /\ LastEdit(p) <= flights[k].since)
  <2> DEFINE got == {[page |-> p, edit |-> LastEdit(p)]}
             flight == [flights[k] EXCEPT !.got = got]
  <2>1. flights' = [flights EXCEPT ![k] = flight] BY <1>2, <1>7 DEF FetchPage
  <2>2. LastEdit(p) \in 0 .. MaxEdits BY <1>3, EditNumbers, SyncAssumption DEF SyncInv
  <2>3. got \subseteq [page : Pages, edit : 0 .. MaxEdits] BY <2>2
  <2>4. \A g \in got : g.page = p /\ g.edit = LastEdit(p) OBVIOUS
  <2> HIDE DEF got
  <2>5. /\ flight \in Flights /\ flight.got = got /\ flight.left = flights[k].left
        /\ flight.since = flights[k].since
    BY <1>2, <2>3 DEF Flights
  <2> HIDE DEF flight
  <2>6. p \in k.pages => \A g \in flight.got : g.page \in k.pages BY <2>4, <2>5
  <2>7. OfEvent(k) /\ p \in k.pages => \A g \in flight.got : g.edit >= k.suffix
    <3> SUFFICES ASSUME OfEvent(k), p \in k.pages, NEW g \in flight.got PROVE g.edit >= k.suffix OBVIOUS
    <3>1. k.suffix <= LastEdit(p) BY <1>3, <1>5
    <3>2. k.suffix \in Nat /\ LastEdit(p) \in Nat BY <2>2, SyncAssumption DEF OfEvent
    <3> QED BY <2>4, <2>5, <3>1, <3>2
  <2>8. p \in k.pages /\ flight.left \subseteq k.pages BY <1>1, <2>5 DEF SyncInv, FlightInv
  <2> QED BY <1>1, <1>4, <1>5, <2>1, <2>5, <2>6, <2>7, <2>8, FlightStep
<1> QED BY <1>6, <1>7

LEMMA StorePageStep ==
  ASSUME SyncInv, NEW k \in Keys, StorePage(k)
  PROVE  SyncInv'
<1>1. Flying(k) /\ UNCHANGED <<edits, processed, syncTasks, lastSynced>> BY DEF StorePage
<1>2. PICK g \in flights[k].got :
        /\ versions' = [versions EXCEPT ![g.page] = Max({@, g.edit})]
        /\ flights' = [flights EXCEPT ![k].left = @ \ {g.page}, ![k].got = {}, ![k].stored = TRUE]
  BY DEF StorePage
<1> DEFINE flight == [flights[k] EXCEPT !.left = @ \ {g.page}, !.got = {}, !.stored = TRUE]
<1>3. flights[k] \in Flights /\ flights \in [Keys -> Flights \cup {NoTask}] BY <1>1, InFlight
<1>4. g.page \in Pages /\ g.edit \in 0 .. MaxEdits BY <1>2, <1>3 DEF Flights
<1>5. flights' = [flights EXCEPT ![k] = flight] BY <1>2, <1>3
<1>6. /\ flight \in Flights /\ flight.got = {} /\ flight.left = flights[k].left \ {g.page}
      /\ flight.since = flights[k].since
  BY <1>3 DEF Flights
<1> HIDE DEF flight
<1>7. versions \in [Pages -> 0 .. MaxEdits] /\ MaxEdits \in Nat BY SyncAssumption DEF SyncInv, SyncTypeOK
<1> DEFINE m == Max({versions[g.page], g.edit})
<1>8. m \in 0 .. MaxEdits /\ m >= versions[g.page] /\ m >= g.edit
  <2>1. versions[g.page] \in 0 .. MaxEdits BY <1>4, <1>7
  <2> QED BY <1>4, <1>7, <2>1, MaxOfTwo
<1>9. versions' = [versions EXCEPT ![g.page] = m] BY <1>2
<1> HIDE DEF m
<1>10. versions' \in [Pages -> 0 .. MaxEdits] /\ \A q \in Pages : versions'[q] >= versions[q]
  BY <1>4, <1>7, <1>8, <1>9
<1>11. OfEvent(k) => /\ flights[k].since = 0 /\ g.edit >= k.suffix
                     /\ \A q \in k.pages \ flights[k].left : versions[q] >= k.suffix
  BY <1>1, <1>2 DEF SyncInv, FlightInv
<1>12. OfEvent(k) => \A q \in k.pages \ flight.left : versions'[q] >= k.suffix
  <2> SUFFICES ASSUME OfEvent(k), NEW q \in k.pages \ flight.left PROVE versions'[q] >= k.suffix
    OBVIOUS
  <2>1. q \in Pages BY KeyPages
  <2>2. k.suffix \in Nat BY SyncAssumption DEF OfEvent
  <2>3. CASE q = g.page
    <3>1. versions'[q] = m BY <1>4, <1>7, <1>9, <2>3
    <3>2. m >= g.edit /\ g.edit >= k.suffix /\ m \in Nat /\ g.edit \in Nat BY <1>4, <1>8, <1>11
    <3>3. m >= k.suffix BY <2>2, <3>2
    <3> QED BY <3>1, <3>3
  <2>4. CASE q # g.page
    <3>1. versions'[q] = versions[q] BY <1>7, <1>9, <2>1, <2>4
    <3>2. q \in k.pages \ flights[k].left BY <1>6, <2>4
    <3> QED BY <1>11, <3>1, <3>2
  <2> QED BY <2>3, <2>4
<1>13. flight.left \subseteq k.pages BY <1>1, <1>6 DEF SyncInv, FlightInv
<1> QED BY <1>1, <1>5, <1>6, <1>10, <1>11, <1>12, <1>13, FlightStep

\* A run ends: its task is in another status, and is completed only with no page left.
LEMMA EndSyncStep ==
  ASSUME SyncInv, NEW k \in Keys, Flying(k), NEW status \in SyncStatus,
         status = "completed" => flights[k].left = {},
         syncTasks' = [syncTasks EXCEPT ![k].status = status],
         flights' = [flights EXCEPT ![k] = NoTask], lastSynced' \in 0 .. Now,
         UNCHANGED <<edits, processed, versions>>
  PROVE  SyncInv'
<1> DEFINE task == [syncTasks[k] EXCEPT !.status = status]
<1>1. /\ syncTasks \in [Keys -> Tasks \cup {NoTask}] /\ syncTasks[k] \in Tasks /\ Queued(k)
      /\ flights \in [Keys -> Flights \cup {NoTask}]
  BY InFlight
<1>2. syncTasks' = [syncTasks EXCEPT ![k] = task] BY <1>1
<1>3. task \in Tasks /\ task.status = status BY <1>1 DEF Tasks
<1> HIDE DEF task
<1>4. /\ syncTasks'[k] = task /\ \A j \in Keys \ {k} : syncTasks'[j] = syncTasks[j]
      /\ flights'[k] = NoTask /\ \A j \in Keys \ {k} : flights'[j] = flights[j]
  BY <1>1, <1>2
<1>5. \A j \in Keys : Queued(j)' <=> Queued(j)
  BY <1>1, <1>3, <1>4, SyncAssumption DEF Queued
<1>6. SyncTypeOK' BY <1>1, <1>2, <1>3 DEF SyncInv, SyncTypeOK, Now
<1>7. SyncTaskInv'
  <2>1. OfEvent(k) => \A p \in k.pages \ flights[k].left : versions[p] >= k.suffix
    BY DEF SyncInv, FlightInv
  <2>2. OfEvent(k) /\ status = "completed" => \A p \in k.pages : versions[p] >= k.suffix
    BY <2>1
  <2> QED BY <1>3, <1>4, <1>5, <2>2 DEF SyncInv, SyncTaskInv, OfEvent
<1>8. FlightInv' BY <1>4, <1>5 DEF SyncInv, FlightInv, Flying, OfEvent
<1>9. ProcessedInv' BY <1>5, ProcessedStays DEF SyncInv
<1> QED BY <1>6, <1>7, <1>8, <1>9 DEF SyncInv

LEMMA CompleteSyncStep == ASSUME SyncInv, NEW k \in Keys, CompleteSync(k) PROVE SyncInv'
<1>1. lastSynced' \in 0 .. Now
  BY EditNumbers, SyncAssumption DEF CompleteSync, SyncInv, SyncTypeOK
<1> QED BY <1>1, EndSyncStep DEF CompleteSync, SyncStatus

LEMMA FailSyncStep == ASSUME SyncInv, NEW k \in Keys, FailSync(k) PROVE SyncInv'
<1> DEFINE status == IF syncTasks[k].attempts >= DefaultAttempts THEN "failed" ELSE "retry_scheduled"
<1>1. status \in SyncStatus /\ status # "completed" BY DEF SyncStatus
<1>2. /\ Flying(k) /\ syncTasks' = [syncTasks EXCEPT ![k].status = status]
      /\ flights' = [flights EXCEPT ![k] = NoTask] /\ UNCHANGED <<edits, processed, versions, lastSynced>>
  BY DEF FailSync
<1>3. lastSynced' \in 0 .. Now BY <1>2 DEF SyncInv, SyncTypeOK
<1> HIDE DEF status
<1> QED BY <1>1, <1>2, <1>3, EndSyncStep

LEMMA SyncCrashStep == ASSUME SyncInv, SyncCrash PROVE SyncInv'
<1>1. flights' = [k \in Keys |-> NoTask] /\ UNCHANGED <<edits, processed, syncTasks, versions, lastSynced>>
  BY DEF SyncCrash
<1>2. \A k \in Keys : (Queued(k)' <=> Queued(k)) /\ ~ Flying(k)' BY <1>1 DEF Queued, Flying
<1>3. SyncTypeOK' BY <1>1 DEF SyncInv, SyncTypeOK, Now
<1>4. SyncTaskInv' BY <1>1, <1>2 DEF SyncInv, SyncTaskInv, OfEvent
<1>5. FlightInv' BY <1>2 DEF FlightInv
<1>6. ProcessedInv' BY <1>1, <1>2, ProcessedStays DEF SyncInv
<1> QED BY <1>3, <1>4, <1>5, <1>6 DEF SyncInv

LEMMA SyncInitHolds == SyncInit => SyncInv
<1> SUFFICES ASSUME SyncInit PROVE SyncInv OBVIOUS
<1>1. \A k \in Keys : ~ Queued(k) /\ ~ Flying(k) BY DEF SyncInit, Queued, Flying
<1>2. SyncTypeOK BY SyncAssumption DEF SyncInit, SyncTypeOK, Now
<1>3. SyncTaskInv /\ FlightInv BY <1>1 DEF SyncTaskInv, FlightInv
<1>4. ProcessedInv BY DEF SyncInit, ProcessedInv
<1> QED BY <1>2, <1>3, <1>4 DEF SyncInv

LEMMA SyncStep == SyncInv /\ [SyncNext]_syncVars => SyncInv'
<1> SUFFICES ASSUME SyncInv, [SyncNext]_syncVars PROVE SyncInv' OBVIOUS
<1>1. CASE UNCHANGED syncVars
  BY <1>1 DEF syncVars, SyncInv, SyncTypeOK, SyncTaskInv, FlightInv, ProcessedInv, Queued, Flying,
     OfEvent, Now
<1>2. CASE EditPages BY <1>2, EditPagesStep
<1>3. ASSUME NEW n \in DOMAIN edits, Deliver(n) \/ DeliverAnonymous(n) PROVE SyncInv'
  BY <1>3, DeliverStep, AnonymousStep
<1>4. ASSUME NEW pages \in {Pages} \cup {{p} : p \in Pages}, RequestSync(pages) PROVE SyncInv'
  BY <1>4, RequestStep
<1>5. ASSUME NEW k \in Keys,
             \/ StartSync(k)
             \/ \E p \in Pages : FetchPage(k, p)
             \/ StorePage(k) \/ CompleteSync(k) \/ FailSync(k)
      PROVE  SyncInv'
  BY <1>5, StartSyncStep, FetchPageStep, StorePageStep, CompleteSyncStep, FailSyncStep
<1>6. CASE SyncCrash BY <1>6, SyncCrashStep
<1> QED BY <1>1, <1>2, <1>3, <1>4, <1>5, <1>6 DEF SyncNext

LEMMA SyncInvHolds == SyncSpec => []SyncInv
BY SyncInitHolds, SyncStep, PTL DEF SyncSpec

\* The tasks, what their runs hold, the versions and the times stay in their types.
THEOREM SyncTypes == SyncSpec => []SyncTypeOK
<1>1. SyncInv => SyncTypeOK BY DEF SyncInv
<1> QED BY <1>1, SyncInvHolds, PTL

\* However many events are lost, repeated and reordered and wherever the process dies, an
\* event that is called processed has its tasks, and a completed one its version
\* (connectors/sync, integrations/*/events.py).
THEOREM EventsAreKept == SyncSpec => []NoEventLost
<1>1. ASSUME SyncInv, NEW n \in DOMAIN edits, NEW p \in edits[n]
      PROVE  /\ n \in processed => Queued([pages |-> {p}, suffix |-> n])
             /\ Queued([pages |-> {p}, suffix |-> n]) /\ syncTasks[[pages |-> {p}, suffix |-> n]].status = "completed" =>
                  versions[p] >= n
  <2>1. n \in 1 .. MaxEdits /\ p \in Pages BY <1>1, EditNumbers DEF SyncInv
  <2>2. [pages |-> {p}, suffix |-> n] \in Keys /\ OfEvent([pages |-> {p}, suffix |-> n])
    BY <2>1, EventKey DEF OfEvent
  <2> QED BY <1>1, <2>2 DEF SyncInv, ProcessedInv, SyncTaskInv
<1>2. SyncInv => NoEventLost BY <1>1 DEF NoEventLost
<1> QED BY <1>2, SyncInvHolds, PTL

-----------------------------------------------------------------------------
(* AgentCommands: how often an effect is made. *)

\* The effects that an execution has still to make.
Coming(c) == {PlanOf(c)[i] : i \in {j \in DOMAIN PlanOf(c) : ~ j < execution[c].at}}

\* A try makes an effect once at most, and misses it once at most.
Budget(c) ==
  /\ Executing(c) => command[c].tries > 0
  /\ \A e \in Effects :
       /\ made[c][e] <= command[c].tries /\ missed[c][e] <= command[c].tries
       /\ Executing(c) /\ e \in Coming(c) =>
            /\ made[c][e] < command[c].tries
            /\ (execution[c].seen /\ e \in NextEffect(c)) \/ missed[c][e] < command[c].tries

TriesInv == \A c \in Commands : Posted(c) => Budget(c)

LEMMA BudgetOf ==
  ASSUME AgentInv, TriesInv, NEW c \in Commands, Posted(c)
  PROVE  /\ Budget(c) /\ command[c] \in CommandRows /\ command[c].tries \in 0 .. MaxTries
         /\ made[c] \in [Effects -> Nat] /\ missed[c] \in [Effects -> Nat] /\ MaxTries \in Nat
BY RowOf, AgentAssumption DEF AgentInv, Tables, TriesInv, CommandRows

\* A step of one command that keeps what the others have.
LEMMA OneBudget ==
  ASSUME TriesInv, NEW c \in Commands, Others(c), Posted(c)' => Budget(c)'
  PROVE  TriesInv'
<1> SUFFICES ASSUME NEW d \in Commands, d # c, Posted(d)' PROVE Budget(d)' BY DEF TriesInv
<1>1. /\ command'[d] = command[d] /\ execution'[d] = execution[d]
      /\ made'[d] = made[d] /\ missed'[d] = missed[d]
  BY DEF Others
<1>2. Budget(d) BY <1>1 DEF TriesInv, Posted
<1> QED BY <1>1, <1>2 DEF Budget, Executing, Coming, PlanOf, NextEffect

LEMMA OthersOf ==
  ASSUME AgentInv, NEW c \in Commands,
         \/ \E action \in Actions : PostMessage(c, action)
         \/ ConfirmTask(c) \/ DismissTask(c)
         \/ LookUp(c) \/ Create(c) \/ ConnectSource(c) \/ ConnectEvidence(c)
         \/ StartReview(c) \/ RefuseReview(c) \/ Complete(c) \/ FailCommand(c)
  PROVE  Others(c)
<1> USE DEF AgentInv, Tables, Others
<1>1. ASSUME NEW action \in Actions, PostMessage(c, action) PROVE Others(c)
  BY <1>1 DEF PostMessage, Claim
<1>2. CASE ConfirmTask(c) BY <1>2 DEF ConfirmTask, Claim
<1>3. CASE DismissTask(c) BY <1>3 DEF DismissTask
<1>4. CASE LookUp(c) BY <1>4 DEF LookUp
<1>5. CASE Create(c) BY <1>5 DEF Create, Step
<1>6. CASE ConnectSource(c) BY <1>6 DEF ConnectSource, Step
<1>7. CASE ConnectEvidence(c) BY <1>7 DEF ConnectEvidence, Step
<1>8. CASE StartReview(c) BY <1>8 DEF StartReview, Step
<1>9. CASE RefuseReview(c) \/ Complete(c) \/ FailCommand(c)
  BY <1>9 DEF RefuseReview, Complete, FailCommand, Finish
<1> QED BY <1>1, <1>2, <1>3, <1>4, <1>5, <1>6, <1>7, <1>8, <1>9

\* A try begins.
LEMMA ClaimBudget ==
  ASSUME AgentInv, NEW c \in Commands, NEW row \in CommandRows, Claim(c, row), UNCHANGED <<made, missed>>,
         \A e \in Effects : made[c][e] <= row.tries /\ missed[c][e] <= row.tries
  PROVE  Budget(c)'
<1>1. row.tries \in Nat BY AgentAssumption DEF CommandRows
<1>2. command'[c] = [row EXCEPT !.status = "running", !.tries = @ + 1]
  BY DEF Claim, AgentInv, Tables
<1>3. command'[c].tries = row.tries + 1 BY <1>2 DEF CommandRows
<1>4. made[c] \in [Effects -> Nat] /\ missed[c] \in [Effects -> Nat] BY DEF AgentInv, Tables
<1>5. command'[c].tries > 0
      /\ \A e \in Effects : made'[c][e] < command'[c].tries /\ missed'[c][e] < command'[c].tries
                            /\ made'[c][e] <= command'[c].tries /\ missed'[c][e] <= command'[c].tries
  BY <1>1, <1>3, <1>4
<1> QED BY <1>5 DEF Budget

\* A step that makes nothing and goes to no other effect.
LEMMA QuietBudget ==
  ASSUME AgentInv, TriesInv, NEW c \in Commands, Posted(c), UNCHANGED <<made, missed>>,
         command'[c].tries = command[c].tries, command'[c].action = command[c].action,
         execution'[c] = NoCommand \/ execution'[c] = execution[c]
  PROVE  Budget(c)'
<1>1. Budget(c) BY BudgetOf
<1>2. CASE execution'[c] = NoCommand BY <1>1, <1>2 DEF Budget, Executing
<1>3. CASE execution'[c] = execution[c]
  <2>1. NextEffect(c)' = NextEffect(c) /\ Coming(c)' = Coming(c) /\ (Executing(c)' <=> Executing(c))
    BY <1>3 DEF NextEffect, Coming, PlanOf, Executing
  <2> QED BY <1>1, <1>3, <2>1 DEF Budget
<1> QED BY <1>2, <1>3

\* What has been looked up may have been missed.
LEMMA LookUpBudget ==
  ASSUME AgentInv, TriesInv, NEW c \in Commands, LookUp(c)
  PROVE  Budget(c)'
<1>1. UNCHANGED <<command, made>> BY DEF LookUp
<1>2. PICK e \in NextEffect(c) \cap LookedUp, found \in SUBSET (NextEffect(c) \cap Made(c)), n \in Nat :
        /\ Posted(c) /\ Executing(c) /\ ~ execution[c].seen /\ NextEffect(c) = {e} /\ e \in Effects
        /\ execution[c] \in Executions
        /\ execution' = [execution EXCEPT ![c] = [execution[c] EXCEPT !.seen = TRUE, !.found = found]]
        /\ missed' = [missed EXCEPT ![c][e] = n]
        /\ n = missed[c][e] \/ n = missed[c][e] + 1
        /\ e \in found \/ n = missed[c][e] + 1 \/ made[c][e] = 0
  BY LookedUpOf
<1>3. /\ Budget(c) /\ command[c].tries \in Nat /\ made[c] \in [Effects -> Nat]
      /\ missed[c] \in [Effects -> Nat]
  BY <1>2, BudgetOf
<1>4. execution'[c].at = execution[c].at /\ execution'[c].seen /\ missed'[c] = [missed[c] EXCEPT ![e] = n]
  BY <1>2 DEF AgentInv, Tables, Executions
<1>5. Coming(c)' = Coming(c) /\ NextEffect(c)' = {e}
  BY <1>1, <1>2, <1>4 DEF Coming, PlanOf, NextEffect
<1>6. e \in Coming(c)
  <2>1. execution[c].at \in DOMAIN PlanOf(c) /\ execution[c].at \in {1, 2} /\ e = PlanOf(c)[execution[c].at]
    BY <1>2, Next_ DEF AgentInv
  <2> QED BY <2>1 DEF Coming
<1>7. n <= command[c].tries
  <2>1. missed[c][e] < command[c].tries BY <1>2, <1>3, <1>6 DEF Budget
  <2> QED BY <1>2, <1>3, <2>1
<1> QED BY <1>1, <1>2, <1>3, <1>4, <1>5, <1>7 DEF Budget

\* An effect is made, and does not come again.
LEMMA EffectBudget ==
  ASSUME AgentInv, TriesInv, NEW c \in Commands, Executing(c), NEW e \in NextEffect(c), Step(c),
         UNCHANGED <<command, missed>>, NEW n \in Nat,
         made' = [made EXCEPT ![c][e] = n],
         n = 1 \/ n = made[c][e] \/ n = made[c][e] + 1
  PROVE  Budget(c)'
<1>1. /\ Posted(c) /\ execution[c].at \in DOMAIN PlanOf(c) /\ e \in Effects
      /\ execution[c].at \in {1, 2} /\ NextEffect(c) = {e} /\ e = PlanOf(c)[execution[c].at]
  BY Next_ DEF AgentInv
<1>2. /\ Budget(c) /\ command[c] \in CommandRows /\ command[c].tries \in Nat
      /\ made[c] \in [Effects -> Nat] /\ missed[c] \in [Effects -> Nat]
  BY <1>1, BudgetOf
<1>3. /\ made'[c] = [made[c] EXCEPT ![e] = n] /\ command'[c] = command[c]
      /\ execution'[c].at = execution[c].at + 1 /\ ~ execution'[c].seen
  <2>1. execution[c] \in Executions BY RowOf DEF AgentInv
  <2> QED BY <2>1 DEF Step, AgentInv, Tables, Executions
<1>4. n <= command[c].tries
  <2>1. e \in Coming(c) BY <1>1 DEF Coming
  <2>2. made[c][e] < command[c].tries /\ command[c].tries > 0 BY <1>1, <1>2, <2>1 DEF Budget
  <2> QED BY <1>1, <1>2, <2>2
<1>5. Coming(c)' \subseteq Coming(c) \ {e}
  <2>1. command[c].action \in Actions BY <1>1, RowOf DEF AgentInv
  <2>2. DOMAIN PlanOf(c) \subseteq {1, 2} /\ \A i, j \in DOMAIN PlanOf(c) : PlanOf(c)[i] = PlanOf(c)[j] => i = j
    BY <2>1, Plans DEF PlanOf
  <2>3. PlanOf(c)' = PlanOf(c) BY <1>3 DEF PlanOf
  <2> SUFFICES ASSUME NEW i \in DOMAIN PlanOf(c), ~ i < execution'[c].at
               PROVE  ~ i < execution[c].at /\ PlanOf(c)[i] # e
    BY <2>3 DEF Coming
  <2>4. i \in {1, 2} /\ ~ i < execution[c].at + 1 BY <1>3, <2>2
  <2>5. ~ i < execution[c].at /\ i # execution[c].at BY <1>1, <2>4
  <2> QED BY <1>1, <2>2, <2>5
<1>6. \A d \in Effects : d \in Coming(c)' => d # e /\ d \in Coming(c) /\ d \notin NextEffect(c)
  BY <1>1, <1>5
<1> QED BY <1>1, <1>2, <1>3, <1>4, <1>6 DEF Budget

LEMMA TriesStep ==
  ASSUME AgentInv, TriesInv, AgentNext
  PROVE  TriesInv'
<1>1. ASSUME NEW c \in Commands, NEW action \in Actions, PostMessage(c, action) PROVE TriesInv'
  <2> DEFINE row == [action |-> action, confirmed |-> FALSE, tries |-> 0, source |-> LatestPrd,
                     checksum |-> IF LatestPrd = 0 THEN {} ELSE {sources[LatestPrd].checksum} \ {NoChecksum},
                     status |-> IF RequiresConfirmation(action) THEN "awaiting_confirmation"
                                ELSE "executable"]
  <2>1. LatestPrd \in 0 .. MaxSources
        /\ (LatestPrd # 0 => sources[LatestPrd].checksum \in Texts \cup {NoChecksum})
    BY LatestIsThere DEF AgentInv, Sources
  <2>2. row \in CommandRows /\ row.tries = 0 BY <2>1, AgentAssumption DEF CommandRows, CommandStatus
  <2>3. /\ ~ Posted(c) /\ UNCHANGED <<made, missed>>
        /\ IF RequiresConfirmation(action)
           THEN command' = [command EXCEPT ![c] = row] /\ UNCHANGED execution
           ELSE Claim(c, row)
    BY <1>1 DEF PostMessage
  <2> HIDE DEF row
  <2>4. Made(c) = {} /\ Missed(c) = {} /\ ~ Executing(c) BY <2>3 DEF AgentInv, CommandsInv, CommandInv
  <2>5. \A e \in Effects : made[c][e] = 0 /\ missed[c][e] = 0 BY <2>4 DEF Made, Missed, AgentInv, Tables
  <2>6. \A e \in Effects : made[c][e] <= row.tries /\ missed[c][e] <= row.tries BY <2>2, <2>5
  <2>7. CASE ~ RequiresConfirmation(action)
    <3>1. Claim(c, row) BY <2>3, <2>7
    <3>2. Budget(c)' BY <2>2, <2>3, <2>6, <3>1, ClaimBudget
    <3> QED BY <1>1, <3>2, OthersOf, OneBudget
  <2>8. CASE RequiresConfirmation(action)
    <3>1. command'[c] = row /\ ~ Executing(c)'
      BY <2>3, <2>4, <2>8 DEF AgentInv, Tables, Executing
    <3>2. Budget(c)' BY <2>3, <2>6, <3>1 DEF Budget
    <3> QED BY <1>1, <3>2, OthersOf, OneBudget
  <2> QED BY <2>7, <2>8
<1>2. ASSUME NEW c \in Commands, ConfirmTask(c) PROVE TriesInv'
  <2>1. Posted(c) /\ UNCHANGED <<made, missed>> BY <1>2 DEF ConfirmTask
  <2>2. Budget(c) /\ command[c] \in CommandRows BY <2>1, BudgetOf
  <2>3. PICK row \in CommandRows : Claim(c, row) /\ row.tries = command[c].tries
    <3> DEFINE row == [command[c] EXCEPT !.status = "executable", !.confirmed = TRUE]
    <3>1. row \in CommandRows /\ row.tries = command[c].tries BY <2>2 DEF CommandRows, CommandStatus
    <3>2. Claim(c, row) \/ Claim(c, command[c]) BY <1>2 DEF ConfirmTask
    <3> HIDE DEF row
    <3> QED BY <2>2, <3>1, <3>2
  <2>4. \A e \in Effects : made[c][e] <= row.tries /\ missed[c][e] <= row.tries
    BY <2>2, <2>3 DEF Budget
  <2>5. Budget(c)' BY <2>1, <2>3, <2>4, ClaimBudget
  <2> QED BY <1>2, <2>5, OthersOf, OneBudget
<1>3. ASSUME NEW c \in Commands, DismissTask(c) PROVE TriesInv'
  <2>1. Posted(c) /\ UNCHANGED <<execution, made, missed>> BY <1>3 DEF DismissTask
  <2>2. command'[c] = [command[c] EXCEPT !.status = "dismissed"] /\ command[c] \in CommandRows
    BY <1>3, <2>1, BudgetOf DEF DismissTask, AgentInv, Tables
  <2>3. command'[c].tries = command[c].tries /\ command'[c].action = command[c].action
    BY <2>2 DEF CommandRows
  <2>4. Budget(c)' BY <2>1, <2>3, QuietBudget
  <2> QED BY <1>3, <2>4, OthersOf, OneBudget
<1>4. ASSUME NEW c \in Commands, LookUp(c) PROVE TriesInv'
  BY <1>4, LookUpBudget, OthersOf, OneBudget
<1>5. ASSUME NEW c \in Commands,
             Create(c) \/ ConnectSource(c) \/ ConnectEvidence(c) \/ StartReview(c)
      PROVE  TriesInv'
  <2>0. PICK e \in NextEffect(c) : \E n :
          /\ n = 1 \/ n = made[c][e] \/ n = made[c][e] + 1
          /\ (n = made[c][e] /\ made' = made) \/ made' = [made EXCEPT ![c][e] = n]
    BY <1>5 DEF Create, ConnectSource, ConnectEvidence, StartReview
  <2>1. PICK n :
          /\ n = 1 \/ n = made[c][e] \/ n = made[c][e] + 1
          /\ (n = made[c][e] /\ made' = made) \/ made' = [made EXCEPT ![c][e] = n]
    BY <2>0
  <2>2. Executing(c) /\ Step(c) /\ UNCHANGED <<command, missed>>
    BY <1>5 DEF Create, ConnectSource, ConnectEvidence, StartReview
  <2>3. e \in Effects BY <2>1, <2>2, Next_ DEF AgentInv
  <2>4. made[c] \in [Effects -> Nat] BY DEF AgentInv, Tables
  <2>5. n \in Nat /\ made' = [made EXCEPT ![c][e] = n]
    BY <2>1, <2>3, <2>4 DEF AgentInv, Tables
  <2>6. Budget(c)' BY <2>1, <2>2, <2>5, EffectBudget
  <2> QED BY <1>5, <2>6, OthersOf, OneBudget
<1>6. ASSUME NEW c \in Commands, RefuseReview(c) \/ Complete(c) \/ FailCommand(c) PROVE TriesInv'
  <2>1. PICK status : Finish(c, status) BY <1>6 DEF RefuseReview, Complete, FailCommand
  <2>2. Executing(c) /\ UNCHANGED <<made, missed>> BY <1>6 DEF RefuseReview, Complete, FailCommand
  <2>3. Posted(c) BY <2>2 DEF AgentInv, CommandsInv, CommandInv
  <2>4. command'[c] = [command[c] EXCEPT !.status = status] /\ command[c] \in CommandRows
        /\ execution'[c] = NoCommand
    BY <2>1, <2>3, BudgetOf DEF Finish, AgentInv, Tables
  <2>5. command'[c].tries = command[c].tries /\ command'[c].action = command[c].action
    BY <2>4 DEF CommandRows
  <2>6. Budget(c)' BY <2>2, <2>3, <2>4, <2>5, QuietBudget
  <2> QED BY <1>6, <2>6, OthersOf, OneBudget
<1>7. CASE AgentCrash
  <2> SUFFICES ASSUME NEW c \in Commands, Posted(c)' PROVE Budget(c)' BY DEF TriesInv
  <2>1. UNCHANGED <<command, made, missed>> /\ execution'[c] = NoCommand BY <1>7 DEF AgentCrash
  <2>2. Posted(c) BY <2>1 DEF Posted
  <2> QED BY <2>1, <2>2, QuietBudget
<1> QED BY <1>1, <1>2, <1>3, <1>4, <1>5, <1>6, <1>7 DEF AgentNext

LEMMA TriesSame ==
  ASSUME TriesInv, UNCHANGED agentVars
  PROVE  TriesInv'
BY DEF TriesInv, agentVars, Posted, Budget, Executing, Coming, PlanOf, NextEffect

LEMMA TriesHold == ProjectSpec => []TriesInv
<1>1. MaterialsInit /\ AgentInit => TriesInv BY DEF AgentInit, TriesInv, Posted
<1>2. AgentInv /\ TriesInv /\ [ProjectNext]_<<materialVars, agentVars>> => TriesInv'
  BY TriesStep, TriesSame DEF ProjectNext
<1> QED BY <1>1, <1>2, AgentInvHolds, PTL DEF ProjectSpec

\* However a command is confirmed, dismissed, tried again and interrupted, and whichever
\* listings fail: nothing is made that had to be confirmed and was not; no effect is made
\* more often than the command was tried, and one that is looked up is made again only after
\* its listing had failed; and what is called completed was (agent_router.py run_command,
\* command_gateway.py).
THEOREM EachEffectOnce ==
  ProjectSpec => []OnePerCommand
<1>1. AgentInv /\ TriesInv => OnePerCommand
  <2> SUFFICES ASSUME AgentInv, TriesInv, NEW c \in Commands, Posted(c)
               PROVE  /\ RequiresConfirmation(command[c].action) /\ (\E e \in Effects : made[c][e] > 0) =>
                           command[c].confirmed
                      /\ \A e \in Effects : made[c][e] <= command[c].tries
                      /\ \A e \in LookedUp : made[c][e] <= 1 + missed[c][e]
                      /\ command[c].status = "completed" =>
                           \A i \in DOMAIN Plan(command[c].action) : made[c][Plan(command[c].action)[i]] > 0
    BY DEF OnePerCommand
  <2>1. CommandInv(c) BY DEF AgentInv, CommandsInv
  <2>2. RequiresConfirmation(command[c].action) /\ (\E e \in Effects : made[c][e] > 0) =>
          command[c].confirmed
    BY <2>1 DEF CommandInv, ConfirmedInv, Made
  <2>3. command[c].status = "completed" =>
          \A i \in DOMAIN Plan(command[c].action) : made[c][Plan(command[c].action)[i]] > 0
    BY <2>1 DEF CommandInv, Made, PlanOf
  <2>4. \A e \in Effects : made[c][e] <= command[c].tries BY BudgetOf DEF Budget
  <2> QED BY <2>1, <2>2, <2>3, <2>4 DEF CommandInv
<1> QED BY <1>1, AgentInvHolds, TriesHold, PTL

\* The variables keep their types: whatever is tried again, no command makes an effect, or
\* misses one, more often than it may be tried.
THEOREM AgentTypes == ProjectSpec => []AgentTypeOK
<1>1. AgentInv /\ TriesInv => AgentTypeOK
  <2> SUFFICES ASSUME AgentInv, TriesInv, NEW c \in Commands, NEW e \in Effects
               PROVE  /\ made[c][e] <= MaxTries /\ made[c][e] \in Nat
                      /\ missed[c][e] <= MaxTries /\ missed[c][e] \in Nat
    BY AgentAssumption DEF AgentInv, Tables, AgentTypeOK
  <2>1. made[c][e] \in Nat /\ missed[c][e] \in Nat /\ MaxTries \in Nat
    BY AgentAssumption DEF AgentInv, Tables
  <2>2. CASE ~ Posted(c)
    <3>1. ~ made[c][e] > 0 /\ ~ missed[c][e] > 0
      BY <2>2 DEF AgentInv, CommandsInv, CommandInv, Made, Missed
    <3> QED BY <2>1, <3>1
  <2>3. CASE Posted(c)
    <3>1. Budget(c) /\ command[c].tries \in 0 .. MaxTries BY <2>3, BudgetOf
    <3> QED BY <2>1, <3>1 DEF Budget
  <2> QED BY <2>2, <2>3
<1> QED BY <1>1, AgentInvHolds, TriesHold, PTL

\* The variables of the sources keep their types: no rename, rollback or overwrite makes a
\* version that is out of the order of its title.
THEOREM MaterialsTypes == ProjectSpec => []MaterialsTypeOK
<1>1. AgentInv => MaterialsTypeOK BY DEF AgentInv, SourceInv, ReviewInv, MaterialsTypeOK
<1> QED BY <1>1, AgentInvHolds, PTL

-----------------------------------------------------------------------------
(* The components together. *)

\* In the composition of the runs each component behaves by its own specification, so that
\* every theorem above holds there.
THEOREM Components == Spec => ProjectSpec /\ SyncSpec /\ ConnectionsSpec
<1> DEFINE vars == <<materialVars, agentVars, syncVars, connectionVars, focus>>
<1>1. Init => MaterialsInit /\ AgentInit /\ SyncInit /\ ConnectionsInit
  BY DEF Init
<1>2. vars' = vars =>
        /\ materialVars' = materialVars /\ agentVars' = agentVars
        /\ syncVars' = syncVars /\ connectionVars' = connectionVars
  OBVIOUS
<1>3. [Next]_vars => [ProjectNext]_<<materialVars, agentVars>>
  BY <1>2 DEF Next, ProjectNext
<1>4. [Next]_vars => [SyncNext]_syncVars
  BY <1>2 DEF Next
<1>5. [Next]_vars => [ConnectionsNext]_connectionVars
  BY <1>2 DEF Next
<1> QED BY <1>1, <1>3, <1>4, <1>5, PTL DEF Spec, ProjectSpec, SyncSpec, ConnectionsSpec

\* The values that the variables of all components range over.
THEOREM SpaceTypes == Spec => []TypeOK
<1>1. MaterialsTypeOK /\ AgentTypeOK /\ SyncTypeOK /\ ConnectionsTypeOK => TypeOK BY DEF TypeOK
<1> QED BY <1>1, Components, MaterialsTypes, AgentTypes, SyncTypes, ConnectionsTypes, PTL
=============================================================================

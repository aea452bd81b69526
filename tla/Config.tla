------------------------------- MODULE Config -------------------------------
(***************************************************************************)
(* The configuration file, the gori config commands that rewrite it side   *)
(* by side, crashes among them, and the processes that load it to start an *)
(* agent or a team.  The commands take no lock: what protects the file is  *)
(* that it is validated, written beside its place and moved there.         *)
(***************************************************************************)
EXTENDS Naturals, FiniteSets, SequencesExt

CONSTANTS Commands,       \* the processes, one command each
          Editors,        \* those that may run edit
          Starters,       \* those that may start agents
          Providers, Members,   \* names to give providers and agents
          Drafts,         \* what the user of an editor may save
          Types, Roles,   \* "broken" is a type that lacks what it needs
          McpTools        \* the names an MCP server may give its tools

\* What the file's text is decoded into: the agents are a list, by the name of
\* their provider, with the names of their tools.
Configuration ==
    [providers : SUBSET [name : STRING, type : STRING],
     agents : Seq([name : STRING, provider : STRING, role : STRING, tools : SUBSET STRING]),
     default : STRING, remotes : SUBSET STRING, servers : Nat]

ConfigAssumption ==
    /\ Editors \subseteq Commands /\ Starters \subseteq Commands
    /\ Drafts \subseteq Configuration
ASSUME ConfigAssumption

VARIABLES file,           \* the configuration: {} when absent, else {c}
          draft,          \* the same at the path that edit writes to
          stage,          \* command -> where it is
          want,           \* command -> what it is to save
          server,         \* starter -> its MCP server: "none", "open", "closed"
          team            \* starter -> what it started

configVars == <<file, draft, stage, want, server, team>>

Empty == [providers |-> {}, agents |-> <<>>, default |-> "", remotes |-> {}, servers |-> 0]

\* Text that is no configuration: truncated, or not JSON.
Torn == [Empty EXCEPT !.default = "?"]

NoTeam == [entry |-> "", tools |-> {}, why |-> ""]

ConfigInit ==
    /\ file = {} /\ draft = {}
    /\ stage = [p \in Commands |-> "new"]
    /\ want = [p \in Commands |-> Empty]
    /\ server = [p \in Starters |-> "none"]
    /\ team = [p \in Starters |-> NoTeam]

-----------------------------------------------------------------------------
(* Reading.                                                                *)

AgentNames(c) == {a.name : a \in Range(c.agents)}

\* Mutant: a remote agent may share its name with a local one.
ValidateApart(c) ==
    /\ \A p, q \in c.providers : p.name = q.name => p = q
    /\ \A p \in c.providers : p.type # "broken"
    /\ "" \notin AgentNames(c)
    /\ Cardinality(AgentNames(c)) = Len(c.agents)
    /\ \A a \in Range(c.agents) :
           \E p \in c.providers : p.name = a.provider /\ (p.type = "cli" => a.tools = {})
    /\ c.default \in AgentNames(c) \cup {""}

Validate(c) ==
    /\ \A p, q \in c.providers : p.name = q.name => p = q
    /\ \A p \in c.providers : p.type # "broken"
    /\ "" \notin AgentNames(c)
    /\ Cardinality(AgentNames(c)) = Len(c.agents)
    /\ \A a \in Range(c.agents) :
           \E p \in c.providers : p.name = a.provider /\ (p.type = "cli" => a.tools = {})
    /\ c.default \in AgentNames(c) \cup {""}
    /\ c.remotes \cap AgentNames(c) = {}

Loads(path) == path # {} /\ \A c \in path : Validate(c)

LoadOrEmpty == IF file = {} THEN Empty ELSE CHOOSE c \in file : TRUE

-----------------------------------------------------------------------------
(* Saving.  A command goes on to write what Save accepts, or ends.         *)

Refused(p) == stage' = [stage EXCEPT ![p] = "refused"] /\ UNCHANGED want

Save(p, c, then) ==
    IF Validate(c) THEN stage' = [stage EXCEPT ![p] = then] /\ want' = [want EXCEPT ![p] = c]
                   ELSE Refused(p)

\* Mutant: the file is written in place.
WriteInPlace(p) ==
    /\ \/ stage[p] = "writing" /\ stage' = [stage EXCEPT ![p] = "renaming"] /\ file' = {Torn}
       \/ stage[p] = "drafting" /\ stage' = [stage EXCEPT ![p] = "renamingDraft"] /\ UNCHANGED file
    /\ UNCHANGED <<draft, want, server, team>>

\* The file under a random name, invisible until it is moved; it may fail.
WriteTemp(p) ==
    /\ \/ stage[p] = "writing" /\ stage' = [stage EXCEPT ![p] = "renaming"]
       \/ stage[p] = "drafting" /\ stage' = [stage EXCEPT ![p] = "renamingDraft"]
       \/ stage[p] \in {"writing", "drafting"} /\ stage' = [stage EXCEPT ![p] = "refused"]
    /\ UNCHANGED <<file, draft, want, server, team>>

Rename(p) ==
    /\ \/ /\ stage[p] = "renaming"
          /\ file' = {want[p]}
          /\ stage' = [stage EXCEPT ![p] = "done"]
          /\ UNCHANGED draft
       \/ /\ stage[p] = "renamingDraft"
          /\ draft' = {want[p]}
          /\ stage' = [stage EXCEPT ![p] = "editor"]
          /\ UNCHANGED file
    /\ UNCHANGED <<want, server, team>>

-----------------------------------------------------------------------------
(* The commands, up to where they save.                                    *)

Change(p, found, c) ==
    /\ IF found /\ (file = {} \/ Loads(file)) THEN Save(p, c, "writing") ELSE Refused(p)
    /\ UNCHANGED <<file, draft, server, team>>

InitConfig(p) ==
    /\ stage[p] = "new"
    /\ \E force \in BOOLEAN : IF file # {} /\ ~force THEN Refused(p) ELSE Save(p, Empty, "writing")
    /\ UNCHANGED <<file, draft, server, team>>

AddProvider(p) ==
    /\ stage[p] = "new"
    /\ \E n \in Providers, t \in Types :
           Change(p, TRUE, [LoadOrEmpty EXCEPT !.providers =
               {q \in @ : q.name # n} \cup {[name |-> n, type |-> t]}])

RmProvider(p) ==
    /\ stage[p] = "new"
    /\ \E n \in Providers :
           Change(p, \E q \in LoadOrEmpty.providers : q.name = n,
                  [LoadOrEmpty EXCEPT !.providers = {q \in @ : q.name # n}])

\* An agent of that name is replaced where it stands, and loses its tools.
AddAgent(p) ==
    /\ stage[p] = "new"
    /\ \E n \in Members, v \in Providers, r \in Roles, byDefault \in BOOLEAN :
           LET a == [name |-> n, provider |-> v, role |-> r, tools |-> {}]
           IN  Change(p, TRUE, [LoadOrEmpty EXCEPT
                   !.agents = IF n \in AgentNames(LoadOrEmpty)
                              THEN [i \in DOMAIN @ |-> IF @[i].name = n THEN a ELSE @[i]]
                              ELSE Append(@, a),
                   !.default = IF byDefault THEN n ELSE @])

\* The agents without the one of that name.
Without(agents, n) ==
    LET at == CHOOSE i \in DOMAIN agents : agents[i].name = n
    IN  SubSeq(agents, 1, at - 1) \o SubSeq(agents, at + 1, Len(agents))

RmAgent(p) ==
    /\ stage[p] = "new"
    /\ \E n \in Members :
           Change(p, n \in AgentNames(LoadOrEmpty), [LoadOrEmpty EXCEPT
               !.agents = Without(@, n),
               !.default = IF @ = n THEN "" ELSE @])

SetDefault(p) ==
    /\ stage[p] = "new"
    /\ \E n \in Members : Change(p, file # {}, [LoadOrEmpty EXCEPT !.default = n])

Edit(p) ==
    /\ stage[p] = "new" /\ p \in Editors
    /\ IF file = {} \/ Loads(file) THEN Save(p, LoadOrEmpty, "drafting") ELSE Refused(p)
    /\ UNCHANGED <<file, draft, server, team>>

EditorWrites(p) ==
    /\ stage[p] = "editor"
    /\ draft' \in {{c} : c \in Drafts}
    /\ UNCHANGED <<file, stage, want, server, team>>

EditorExits(p) ==
    /\ stage[p] = "editor"
    /\ \/ stage' = [stage EXCEPT ![p] = "checking"] /\ UNCHANGED draft
       \/ stage' = [stage EXCEPT ![p] = "refused"] /\ draft' = {}
    /\ UNCHANGED <<file, want, server, team>>

CheckDraft(p) ==
    /\ stage[p] = "checking"
    /\ stage' = [stage EXCEPT ![p] = IF Loads(draft) THEN "moving" ELSE "refused"]
    /\ UNCHANGED <<file, draft, want, server, team>>

MoveDraft(p) ==
    /\ stage[p] = "moving"
    /\ IF draft = {} THEN stage' = [stage EXCEPT ![p] = "refused"] /\ UNCHANGED <<file, draft>>
       ELSE /\ file' = draft /\ draft' = {}
            /\ stage' = [stage EXCEPT ![p] = "done"]
    /\ UNCHANGED <<want, server, team>>

\* The process is killed, or the machine stops.
Dies(p) ==
    /\ stage[p] \notin {"new", "done", "refused"}
    /\ stage' = [stage EXCEPT ![p] = "refused"]
    /\ server' = [q \in Starters |-> IF q = p /\ server[q] = "open" THEN "closed" ELSE server[q]]
    /\ UNCHANGED <<file, draft, want, team>>

-----------------------------------------------------------------------------
(* Starting.                                                               *)

\* The entry of a team: the last agent of role main, or else the first.
Main(c) ==
    LET mains == {i \in DOMAIN c.agents : c.agents[i].role = "main"}
        last  == IF mains = {} THEN 1 ELSE CHOOSE i \in mains : \A j \in mains : j <= i
    IN  c.agents[last].name

WireDelegation(c) ==
    {[name |-> a.name, calls |-> "agent"] :
        a \in {b \in Range(c.agents) : b.role = "sub" /\ b.name # Main(c)}}

Registered(tools, names, kind) ==
    {t \in tools : t.name \notin names} \cup {[name |-> n, calls |-> kind] : n \in names}

\* Why an agent cannot be built.  The commands give it no tools to pick from.
BuildFails(c, n) ==
    LET a == CHOOSE x \in Range(c.agents) : x.name = n
    IN  IF n \notin AgentNames(c) THEN "no agent"
        ELSE IF a.provider \notin {p.name : p \in c.providers} THEN "no provider"
        ELSE IF \E p \in c.providers : p.name = a.provider /\ p.type = "broken" THEN "no type"
        ELSE IF a.tools # {} THEN "no tool"
        ELSE ""

FirstFailure(c) ==
    LET fails(i) == BuildFails(c, c.agents[i].name)
        failing  == {i \in DOMAIN c.agents : fails(i) # ""}
    IN  IF failing = {} THEN "" ELSE fails(CHOOSE i \in failing : \A j \in failing : i <= j)

Ends(p, why) ==
    /\ stage' = [stage EXCEPT ![p] = "refused"]
    /\ team' = [team EXCEPT ![p].why = why]

Started(p, entry, tools, then) ==
    /\ stage' = [stage EXCEPT ![p] = then]
    /\ team' = [team EXCEPT ![p] = [entry |-> entry, tools |-> tools, why |-> ""]]

\* One agent, by its name or as the default; serving one, also as the first.
StartAgent(p) ==
    /\ stage[p] = "new" /\ p \in Starters
    /\ \E n \in Members \cup {""}, serving \in BOOLEAN :
           LET c == LoadOrEmpty
               chosen == IF n # "" THEN n ELSE c.default
               entry == IF chosen = "" /\ serving /\ c.agents # <<>> THEN Head(c.agents).name ELSE chosen
           IN  IF ~Loads(file) THEN Ends(p, "config")
               ELSE IF entry = "" THEN Ends(p, "none named")
               ELSE IF n \notin AgentNames(c) \cup {""} THEN Ends(p, "none named")
               ELSE IF BuildFails(c, entry) # "" THEN Ends(p, BuildFails(c, entry))
               ELSE Started(p, entry, {}, "running")
    /\ UNCHANGED <<file, draft, want, server>>

\* The team of gori --orchestrate: all agents, wired to the main one.
StartTeam(p) ==
    /\ stage[p] = "new" /\ p \in Starters
    /\ LET c == LoadOrEmpty
       IN  /\ IF ~Loads(file) THEN Ends(p, "config")
              ELSE IF FirstFailure(c) # "" THEN Ends(p, FirstFailure(c))
              ELSE IF c.agents = <<>> THEN Ends(p, "none named")
              ELSE Started(p, Main(c), WireDelegation(c), IF c.servers > 0 THEN "dialing" ELSE "equipping")
           /\ want' = [want EXCEPT ![p] = c]
    /\ UNCHANGED <<file, draft, server>>

\* Every agent as a tool of an MCP server.
ServeTeam(p) ==
    /\ stage[p] = "new" /\ p \in Starters
    /\ LET c == LoadOrEmpty
       IN  IF ~Loads(file) THEN Ends(p, "config")
           ELSE IF FirstFailure(c) # "" THEN Ends(p, FirstFailure(c))
           ELSE Started(p, "", Registered({}, AgentNames(c), "agent"), "running")
    /\ UNCHANGED <<file, draft, want, server>>

Dial(p) ==
    /\ stage[p] = "dialing"
    /\ \/ server' = [server EXCEPT ![p] = "open"] /\ stage' = [stage EXCEPT ![p] = "listing"] /\ UNCHANGED team
       \/ Ends(p, "server") /\ UNCHANGED server
    /\ UNCHANGED <<file, draft, want>>

\* It is initialized and asked for its tools; when it fails it is closed.
ListTools(p) ==
    /\ stage[p] = "listing"
    /\ \/ /\ \E names \in SUBSET McpTools :
                 Started(p, team[p].entry, Registered(team[p].tools, names, "mcp"), "equipping")
          /\ UNCHANGED server
       \/ Ends(p, "server") /\ server' = [server EXCEPT ![p] = "closed"]
    /\ UNCHANGED <<file, draft, want>>

\* The tools of the remote agents, last, and then the run begins.
Equip(p) ==
    /\ stage[p] = "equipping"
    /\ Started(p, team[p].entry, Registered(team[p].tools, want[p].remotes, "remote"), "running")
    /\ UNCHANGED <<file, draft, want, server>>

RunReturns(p) ==
    /\ stage[p] = "running"
    /\ stage' = [stage EXCEPT ![p] = "done"]
    /\ server' = [server EXCEPT ![p] = IF @ = "open" THEN "closed" ELSE @]
    /\ UNCHANGED <<file, draft, want, team>>

ConfigNext ==
    \E p \in Commands :
        \/ InitConfig(p) \/ AddProvider(p) \/ RmProvider(p) \/ AddAgent(p) \/ RmAgent(p) \/ SetDefault(p)
        \/ Edit(p) \/ EditorWrites(p) \/ EditorExits(p) \/ CheckDraft(p) \/ MoveDraft(p)
        \/ WriteTemp(p) \/ Rename(p) \/ Dies(p)
        \/ StartAgent(p) \/ StartTeam(p) \/ ServeTeam(p)
        \/ Dial(p) \/ ListTools(p) \/ Equip(p) \/ RunReturns(p)

ConfigSpec == ConfigInit /\ [][ConfigNext]_configVars

-----------------------------------------------------------------------------
(* Properties.                                                             *)

\* Whatever commands run side by side, wherever they die and whatever an
\* editor leaves behind, the file is absent or loads: none of them is ever
\* refused by what another one wrote.
FileLoads == file = {} \/ Loads(file)

\* README.md:169 says that "every mutation re-validates referential integrity
\* before writing", "and refuses to save a broken config".
BrokenIsNotSaved == [][file' # file => Loads(file')]_configVars

\* A configuration that loads starts: no reference of it is left dangling for
\* the build to find.  In a team the entry is no tool of its own, each other
\* sub-agent is one unless an MCP tool took its name, no name calls two, and a
\* process that ended has left no MCP server running.
TeamsAreSound ==
    \A p \in Starters :
        /\ team[p].why \notin {"no agent", "no provider", "no type"}
        /\ \A t \in team[p].tools : t.name = team[p].entry => t.calls = "mcp"
        /\ \A s, t \in team[p].tools : s.name = t.name => s = t
        /\ stage[p] = "running" =>
               \A a \in Range(want[p].agents) : a.role = "sub" /\ a.name # team[p].entry =>
                   \E t \in team[p].tools : t.name = a.name /\ t.calls # "remote"
        /\ stage[p] \in {"done", "refused"} => server[p] # "open"
=============================================================================

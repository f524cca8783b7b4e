---------------------------- MODULE Registration ----------------------------
(***************************************************************************)
(* What a Python adapter tells the host it can do, and who serves it: the   *)
(* manifest, the tool catalog and the tool handlers (manifest.py, tools.py, *)
(* and construction, `declare_tools`, `on_tool`, `on_tool_with_context`,    *)
(* `initialize` and `tool.invoke` of adapter.py).  Plugin code may register *)
(* before run and, from its handlers, while the loop runs.                  *)
(***************************************************************************)
EXTENDS Integers, FiniteSets, TLAPS

CONSTANTS
  Tools,         \* tool names
  MaxRequests,   \* bound: tool invocations of the host
  Outcomes,      \* how the body of a tool handler may end: see Code
  Swallows       \* whether plugin code goes on after a ManifestError: it catches
                 \* it, or it declares from a handler, whose exceptions are logged

\* The JSON-RPC code of a tool's answer: 0 for a result; a result that is not
\* JSON, and an exception that is no ToolInvocationError, become
\* ToolExecutionFailed.
Code == [result      |-> 0,      unserializable |-> -33403, generic    |-> -33403,
         NotFound    |-> -33401, Argument       |-> -33402, Details    |-> -33402,
         Failed      |-> -33403, Unavailable    |-> -33404, RetryAfter |-> -33404,
         Denied      |-> -33405]

\* The exceptions whose error reply carries `data`.
WithData == {"Details", "RetryAfter"}

ASSUME RegistrationAssumption == /\ IsFiniteSet(Tools)
                                 /\ MaxRequests \in Nat
                                 /\ Outcomes \subseteq DOMAIN Code
                                 /\ Swallows \in BOOLEAN

Requests == 1 .. MaxRequests

\* A manifest, by what the code looks at.  "slug\n" is a slug and a newline.
Manifests ==
  [parses : BOOLEAN, plugin : {"table", "none"},
   id : {"slug", "slug\n", "other", "none"}, version : {"text", "none"},
   tools : {"list", "malformed", "absent"}, names : SUBSET Tools]

VARIABLES
  manifest,    \* the TOML the author passes
  phase,       \* of the program
  declared,    \* `_declared_tools`
  plain, ctx,  \* whether `_on_tool`, `_on_tool_with_context` are set
  told,        \* history: the catalog of each initialize reply, joined
  state,       \* of each tool.invoke
  by,          \* which handler serves it
  reply        \* the code, and whether there is data, of each answer to it

NoReply == [code |-> 1, data |-> FALSE]

regVars == <<declared, plain, ctx>>
reqVars == <<state, by, reply>>
vars    == <<manifest, phase, regVars, told, reqVars>>

Init ==
  /\ manifest \in Manifests
  /\ phase = "new"
  /\ declared = {} /\ plain = FALSE /\ ctx = FALSE /\ told = {}
  /\ state = [r \in Requests |-> "none"]
  /\ by = [r \in Requests |-> "none"]
  /\ reply = [r \in Requests |-> NoReply]

----------------------------------------------------------------------------
(* Construction and registration *)

\* read_manifest.  `$` in the pattern of the id also matches before a newline.
Readable(m) == /\ m.parses /\ m.plugin = "table"
               /\ m.id \in {"slug", "slug\n"}
               /\ m.version = "text"

\* Mutant: a manifest without a list allows every tool.
Allowed_Lenient(m, ts) == m.tools = "list" => ts \subseteq m.names

\* The cross-check of a catalog with [plugin.extends].tools.
Allowed(m, ts) == ts = {} \/ (m.tools = "list" /\ ts \subseteq m.names)

\* PluginAdapter(manifest_toml=, tools=, on_tool=, on_tool_with_context=).
Construct ==
  /\ phase = "new"
  /\ \E ts \in SUBSET Tools, p, c \in BOOLEAN :
       IF Readable(manifest) /\ Allowed(manifest, ts)
         THEN phase' = "ready" /\ declared' = ts /\ ctx' = c /\ plain' = (p /\ ~c)
         ELSE phase' = "failed" /\ UNCHANGED regVars
  /\ UNCHANGED <<manifest, told, reqVars>>

Registering == phase \in {"ready", "running"}

\* The catalog is replaced, and then checked: a check that raises leaves the
\* new catalog in place.  A ManifestError nobody catches ends the program.
DeclareTools ==
  /\ Registering
  /\ \E ts \in SUBSET Tools :
       /\ declared' = ts
       /\ \/ (Allowed(manifest, ts) \/ Swallows) /\ UNCHANGED phase
          \/ ~Allowed(manifest, ts) /\ phase = "ready" /\ phase' = "failed"
  /\ UNCHANGED <<manifest, plain, ctx, told, reqVars>>

\* A plain handler is ignored beside one with context, which replaces it.
OnTool ==
  /\ Registering
  /\ plain' = (plain \/ ~ctx)
  /\ UNCHANGED <<manifest, phase, declared, ctx, told, reqVars>>

OnToolWithContext ==
  /\ Registering
  /\ ctx' = TRUE /\ plain' = FALSE
  /\ UNCHANGED <<manifest, phase, declared, told, reqVars>>

\* run: a second call raises, and changes nothing.
Run == /\ phase = "ready"
       /\ phase' = "running"
       /\ UNCHANGED <<manifest, regVars, told, reqVars>>

----------------------------------------------------------------------------
(* The loop and the tool tasks *)

\* The reply to initialize advertises the catalog, if there is one.
ReplyInitialize ==
  /\ phase = "running"
  /\ told' = told \cup declared
  /\ UNCHANGED <<manifest, phase, regVars, reqVars>>

Answer(r, code, data) == /\ reply' = [reply EXCEPT ![r] = [code |-> code, data |-> data]]
                         /\ state' = [state EXCEPT ![r] = "answered"]

\* Mutant: whether there is a handler is left to the task.
HandleToolInvoke_Unchecked(r) ==
  /\ phase = "running" /\ state[r] = "none"
  /\ state' = [state EXCEPT ![r] = "accepted"]
  /\ UNCHANGED <<manifest, phase, regVars, told, by, reply>>

\* _handle_tool_invoke: a frame without an id is dropped; that there is no
\* handler goes before bad params; otherwise a task is created, and runs later.
HandleToolInvoke(r) ==
  /\ phase = "running" /\ state[r] = "none"
  /\ \/ state' = [state EXCEPT ![r] = "dropped"] /\ UNCHANGED reply
     \/ ~plain /\ ~ctx /\ Answer(r, -32601, FALSE)
     \/ (plain \/ ctx) /\ Answer(r, -32602, FALSE)
     \/ (plain \/ ctx) /\ state' = [state EXCEPT ![r] = "accepted"] /\ UNCHANGED reply
  /\ UNCHANGED <<manifest, phase, regVars, told, by>>

\* The task looks at the handlers again.
DispatchTool(r) ==
  /\ phase = "running" /\ state[r] = "accepted"
  /\ by' = [by EXCEPT ![r] = IF ctx THEN "ctx" ELSE IF plain THEN "plain" ELSE "assertion"]
  /\ state' = [state EXCEPT ![r] = "served"]
  /\ UNCHANGED <<manifest, phase, regVars, told, reply>>

\* The handler ends; a missing one raises AssertionError, a generic exception.
ToolEnds(r) ==
  /\ phase = "running" /\ state[r] = "served"
  /\ \E o \in Outcomes : Answer(r, Code[o], o \in WithData)
  /\ UNCHANGED <<manifest, phase, regVars, told, by>>

\* The loop leaves once the handlers are drained.
Stop == /\ phase = "running"
        /\ \A r \in Requests : state[r] \notin {"accepted", "served"}
        /\ phase' = "over"
        /\ UNCHANGED <<manifest, regVars, told, reqVars>>

Next == \/ Construct \/ DeclareTools \/ OnTool \/ OnToolWithContext \/ Run
        \/ ReplyInitialize \/ Stop
        \/ \E r \in Requests : HandleToolInvoke(r) \/ DispatchTool(r) \/ ToolEnds(r)

Spec == Init /\ [][Next]_vars

----------------------------------------------------------------------------
(* Properties *)

TypeOK ==
  /\ manifest \in Manifests
  /\ phase \in {"new", "failed", "ready", "running", "over"}
  /\ declared \subseteq Tools /\ told \subseteq Tools
  /\ plain \in BOOLEAN /\ ctx \in BOOLEAN
  /\ state \in [Requests -> {"none", "dropped", "accepted", "served", "answered"}]
  /\ by \in [Requests -> {"none", "plain", "ctx", "assertion"}]
  /\ reply \in [Requests -> [code : Int, data : BOOLEAN]]

\* A task that was accepted finds a handler when it runs, whatever plugin code
\* registers in between (the assertion at adapter.py:450).
HandlerThere == \A r \in Requests : by[r] # "assertion"

\* A tool the host was told of is one the manifest lists: ToolDef.name "MUST
\* appear in the manifest's [plugin.extends].tools list" (tools.py:33).
CatalogAllowed == told \subseteq (IF manifest.tools = "list" THEN manifest.names ELSE {})

\* An adapter that was constructed has an id the host accepts, `^[a-z][a-z0-9_]{0,31}$`
\* (manifest.py:18-19).
IdIsSlug == phase \in {"ready", "running", "over"} => manifest.id = "slug"
----------------------------------------------------------------------------
(* Proofs: what the host is told of is in the manifest, and what was        *)
(* accepted finds a handler, for any set of tools and any number of         *)
(* requests.                                                                *)

Listed == IF manifest.tools = "list" THEN manifest.names ELSE {}

\* The catalog that a constructed adapter holds was checked.
CatalogInv == /\ phase \in {"new", "failed", "ready", "running", "over"}
              /\ told \subseteq Listed
              /\ phase \in {"ready", "running"} => declared \subseteq Listed

\* A catalog that is allowed names tools of the manifest only.
LEMMA AllowedListed == ASSUME NEW ts, Allowed(manifest, ts) PROVE ts \subseteq Listed
  BY DEF Allowed, Listed

\* A tool the host was told of is one the manifest lists, as long as no code
\* goes on after a ManifestError.
THEOREM CatalogIsAllowed == ~Swallows /\ Spec => []CatalogAllowed
<1> SUFFICES ASSUME ~Swallows PROVE Spec => []CatalogAllowed
  OBVIOUS
<1>1. Init => CatalogInv
  BY DEF Init, CatalogInv
<1>2. CatalogInv /\ [Next]_vars => CatalogInv'
  <2> SUFFICES ASSUME CatalogInv, [Next]_vars PROVE CatalogInv'
    OBVIOUS
  <2> USE DEF CatalogInv
  <2>0. (manifest' = manifest) => (Listed' = Listed)
    BY DEF Listed
  <2>1. CASE Construct
    <3>1. PICK ts \in SUBSET Tools, p, c \in BOOLEAN :
            IF Readable(manifest) /\ Allowed(manifest, ts)
              THEN phase' = "ready" /\ declared' = ts /\ ctx' = c /\ plain' = (p /\ ~c)
              ELSE phase' = "failed" /\ UNCHANGED regVars
      BY <2>1 DEF Construct
    <3>2. CASE Readable(manifest) /\ Allowed(manifest, ts)
      BY <2>0, <2>1, <3>1, <3>2, AllowedListed DEF Construct
    <3>3. CASE ~(Readable(manifest) /\ Allowed(manifest, ts))
      BY <2>0, <2>1, <3>1, <3>3 DEF Construct
    <3> QED BY <3>2, <3>3
  <2>2. CASE DeclareTools
    <3>1. PICK ts \in SUBSET Tools :
            /\ declared' = ts
            /\ \/ Allowed(manifest, ts) /\ UNCHANGED phase
               \/ ~Allowed(manifest, ts) /\ phase = "ready" /\ phase' = "failed"
      BY <2>2 DEF DeclareTools
    <3> QED BY <2>0, <2>2, <3>1, AllowedListed DEF DeclareTools
  <2>3. CASE OnTool \/ OnToolWithContext \/ Run \/ Stop
    BY <2>0, <2>3 DEF OnTool, OnToolWithContext, Run, Stop, regVars
  <2>4. CASE ReplyInitialize
    BY <2>0, <2>4 DEF ReplyInitialize, regVars
  <2>5. CASE \E r \in Requests : HandleToolInvoke(r) \/ DispatchTool(r) \/ ToolEnds(r)
    <3>1. UNCHANGED <<manifest, phase, regVars, told>>
      <4>1. ASSUME NEW r \in Requests, HandleToolInvoke(r) PROVE UNCHANGED <<manifest, phase, regVars, told>>
        BY <4>1 DEF HandleToolInvoke
      <4>2. ASSUME NEW r \in Requests, DispatchTool(r) PROVE UNCHANGED <<manifest, phase, regVars, told>>
        BY <4>2 DEF DispatchTool
      <4>3. ASSUME NEW r \in Requests, ToolEnds(r) PROVE UNCHANGED <<manifest, phase, regVars, told>>
        BY <4>3 DEF ToolEnds
      <4> QED BY <2>5, <4>1, <4>2, <4>3
    <3> QED BY <2>0, <3>1 DEF regVars
  <2>6. CASE UNCHANGED vars
    BY <2>0, <2>6 DEF vars, regVars
  <2> QED BY <2>1, <2>2, <2>3, <2>4, <2>5, <2>6 DEF Next
<1>3. CatalogInv => CatalogAllowed
  BY DEF CatalogInv, CatalogAllowed, Listed
<1> QED BY <1>1, <1>2, <1>3, PTL DEF Spec

----------------------------------------------------------------------------

\* A request is accepted only once there is a handler, and then there always is.
HandlerInv == \A r \in Requests :
  /\ phase = "new" => state[r] = "none"
  /\ state[r] \in {"accepted", "served"} => plain \/ ctx
  /\ by[r] # "assertion"

ReqTypes == /\ state \in [Requests -> {"none", "dropped", "accepted", "served", "answered"}]
            /\ by \in [Requests -> {"none", "plain", "ctx", "assertion"}]
            /\ plain \in BOOLEAN /\ ctx \in BOOLEAN

\* The task of an accepted tool.invoke finds a handler, whatever is registered
\* between the check of the loop and the start of the task.
THEOREM HandlerIsThere == Spec => []HandlerThere
<1>1. Init => ReqTypes /\ HandlerInv
  BY DEF Init, ReqTypes, HandlerInv
<1>2. ReqTypes /\ HandlerInv /\ [Next]_vars => (ReqTypes /\ HandlerInv)'
  <2> SUFFICES ASSUME ReqTypes, HandlerInv, [Next]_vars PROVE (ReqTypes /\ HandlerInv)'
    OBVIOUS
  <2> USE DEF ReqTypes, HandlerInv
  <2>1. CASE Construct
    BY <2>1 DEF Construct, reqVars, regVars
  <2>2. CASE DeclareTools
    BY <2>2 DEF DeclareTools, Registering, reqVars
  <2>3. CASE OnTool \/ OnToolWithContext
    BY <2>3 DEF OnTool, OnToolWithContext, Registering, reqVars
  <2>4. CASE Run \/ ReplyInitialize \/ Stop
    BY <2>4 DEF Run, ReplyInitialize, Stop, regVars, reqVars
  <2>5. ASSUME NEW r \in Requests, HandleToolInvoke(r) PROVE (ReqTypes /\ HandlerInv)'
    <3>1. PICK s \in {"dropped", "answered", "accepted"} :
            /\ state' = [state EXCEPT ![r] = s]
            /\ s = "accepted" => plain \/ ctx
      BY <2>5 DEF HandleToolInvoke, Answer
    <3> QED BY <2>5, <3>1 DEF HandleToolInvoke, regVars
  <2>6. ASSUME NEW r \in Requests, DispatchTool(r) PROVE (ReqTypes /\ HandlerInv)'
    BY <2>6 DEF DispatchTool, regVars
  <2>7. ASSUME NEW r \in Requests, ToolEnds(r) PROVE (ReqTypes /\ HandlerInv)'
    BY <2>7 DEF ToolEnds, Answer, regVars
  <2>8. CASE UNCHANGED vars
    BY <2>8 DEF vars, regVars, reqVars
  <2> QED BY <2>1, <2>2, <2>3, <2>4, <2>5, <2>6, <2>7, <2>8 DEF Next
<1>3. HandlerInv => HandlerThere
  BY DEF HandlerInv, HandlerThere
<1> QED BY <1>1, <1>2, <1>3, PTL DEF Spec
=============================================================================

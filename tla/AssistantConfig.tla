--------------------------- MODULE AssistantConfig ---------------------------
(***************************************************************************)
(* The AI assistant's provider connection: the key file that seals its     *)
(* secrets (cloud-infra/internal/assistant/assistant.go), the handlers     *)
(* that save and remove the connection, and the ones that use it           *)
(* (cloud-infra/internal/server/assistant.go).                             *)
(*                                                                         *)
(* One organization: organizations share the key file, and the keys of     *)
(* maps and sealed texts carry the tenant's ID.  A store method is one     *)
(* step; a handler's copies live between its steps.  Writes of the store's *)
(* file succeed here; Enrollment has the ones that fail.                   *)
(***************************************************************************)
EXTENDS Naturals, FiniteSets

CONSTANTS
    Server,         \* the process that serves the control API
    Others,         \* processes that load the key file as well (device-gateway)
    Endpoints,      \* base URLs that a compatible provider may be saved with
    MaxRequests,    \* bound: PUTs under way
    MaxCalls,       \* bound: provider calls under way
    MaxStops        \* bound: process ends

Procs == {Server} \cup Others

\* Processes are named apart from the states of the file and of a start.
ASSUME ProcsAssumption == Procs \cap {"none", "short", "down", "create", "write", "error"} = {}
ASSUME ConfigBounds == MaxRequests \in Nat /\ MaxCalls \in Nat /\ MaxStops \in Nat

Hosted == {"openai", "anthropic"}
Providers == Hosted \cup {"compatible"}

\* A hosted provider has an address of its own, here its name.
Addresses == Hosted \cup Endpoints
BaseURL(provider, url) == IF provider \in Hosted THEN provider ELSE url

VARIABLES
    keyFile,    \* ai-secrets.key: "none", "short", or the process whose key it holds
    box,        \* Service.box of each process, or how far loadSecretBox is
    conf,       \* the stored AIConfiguration
    edits,      \* configurations that PUT handlers are about to save
    calling,    \* configurations with which chats and tests call the provider
    stops

vars == <<keyFile, box, conf, edits, calling, stops>>

\* A sealed provider key: the provider and the address it was entered for, the
\* key it is sealed with.
NoKey == [for |-> "none", at |-> "none", sealed |-> "none"]
NoConf == [provider |-> "none", url |-> "none", key |-> NoKey, enabled |-> FALSE]

Init ==
    /\ keyFile = "none" /\ box = [p \in Procs |-> "down"]
    /\ conf = NoConf /\ edits = {} /\ calling = {}
    /\ stops = 0

-----------------------------------------------------------------------------
(* loadSecretBox: every process makes or reads the key when it starts.     *)

Ready(p) == box[p] \in Procs

\* Fault variant: the length of the key is not checked.
Loaded_Unchecked == keyFile

\* What a process gets from a file that exists: a key has 32 bytes.
Loaded == IF keyFile \in Procs THEN keyFile ELSE "error"

\* The file is read, is not there yet, or cannot be read.
Start(p) ==
    /\ box[p] = "down"
    /\ \/ box' = [box EXCEPT ![p] = IF keyFile = "none" THEN "create" ELSE Loaded]
       \/ box' = [box EXCEPT ![p] = "error"]
    /\ UNCHANGED <<keyFile, conf, edits, calling, stops>>

\* Fault variant: the file is opened without O_EXCL.
CreateKey_Truncates(p) ==
    /\ box[p] = "create"
    /\ keyFile' = "short" /\ box' = [box EXCEPT ![p] = "write"]
    /\ UNCHANGED <<conf, edits, calling, stops>>

\* O_CREATE|O_EXCL: just one process makes the file, the others read it; the
\* directory or the file may be impossible to make.
CreateKey(p) ==
    /\ box[p] = "create"
    /\ \/ keyFile = "none" /\ keyFile' = "short" /\ box' = [box EXCEPT ![p] = "write"]
       \/ keyFile # "none" /\ box' = [box EXCEPT ![p] = Loaded] /\ UNCHANGED keyFile
       \/ box' = [box EXCEPT ![p] = "error"] /\ UNCHANGED keyFile
    /\ UNCHANGED <<conf, edits, calling, stops>>

\* Write, Sync and Close succeed; or one of them fails, and the file is short
\* or whole.
WriteKey(p) ==
    /\ box[p] = "write"
    /\ \/ keyFile' = p /\ box' = [box EXCEPT ![p] = p]
       \/ keyFile' \in {keyFile, p} /\ box' = [box EXCEPT ![p] = "error"]
    /\ UNCHANGED <<conf, edits, calling, stops>>

\* A process ends; with the server go its requests.
Stop(p) ==
    /\ stops < MaxStops /\ stops' = stops + 1
    /\ box[p] # "down" /\ box' = [box EXCEPT ![p] = "down"]
    /\ edits' = IF p = Server THEN {} ELSE edits
    /\ calling' = IF p = Server THEN {} ELSE calling
    /\ UNCHANGED <<keyFile, conf>>

Seal(for, at) == [for |-> for, at |-> at, sealed |-> box[Server]]
Opens(secret) == Ready(Server) /\ secret.sealed = box[Server]
Up == box[Server] \in Procs \cup {"error"}

-----------------------------------------------------------------------------
(* aiConfiguration.                                                        *)

\* Fault variant: the key of the old provider is kept for the new one.
KeptKey_Always(provider) == conf.key

\* The saved key that a request without a key keeps: the address of a
\* compatible provider may change under it.
KeptKey(provider) ==
    IF conf.provider \notin {"none", provider} THEN NoKey ELSE conf.key

\* ValidateConfiguration: a hosted provider needs a key.  Endpoints are valid
\* addresses, and names of models are left out.
Valid(c) == c.provider \in Providers /\ (c.provider # "compatible" => c.key # NoKey)

\* PUT up to SaveAIConfiguration, with or without a new key.
PutConfiguration(provider, url, newKey, clear, enabled) ==
    LET base == BaseURL(provider, url)
        kept == IF clear THEN NoKey ELSE KeptKey(provider)
        key == IF newKey THEN Seal(provider, base) ELSE kept
        new == [provider |-> provider, url |-> base, key |-> key, enabled |-> enabled]
    IN  /\ Up
        /\ newKey => Ready(Server)
        /\ key # NoKey => Opens(key)
        /\ Valid(new)
        /\ Cardinality(edits) < MaxRequests /\ edits' = edits \cup {new}
        /\ UNCHANGED <<keyFile, box, conf, calling, stops>>

SaveAIConfiguration(new) ==
    /\ new \in edits
    /\ conf' = new /\ edits' = edits \ {new}
    /\ UNCHANGED <<keyFile, box, calling, stops>>

DeleteAIConfiguration ==
    /\ Up
    /\ conf' = NoConf
    /\ UNCHANGED <<keyFile, box, edits, calling, stops>>

-----------------------------------------------------------------------------
(* aiTest and aiChat, as far as they use the connection.                   *)

\* aiProvider: the configuration is enabled, can be opened and is valid.
Usable == conf.enabled /\ (conf.key # NoKey => Opens(conf.key)) /\ Valid(conf)

CallProvider ==
    /\ Up /\ Usable
    /\ Cardinality(calling) < MaxCalls /\ calling' = calling \cup {conf}
    /\ UNCHANGED <<keyFile, box, conf, edits, stops>>

\* Complete returns: an answer, an error or a timeout.
ProviderReturns(c) ==
    /\ c \in calling /\ calling' = calling \ {c}
    /\ UNCHANGED <<keyFile, box, conf, edits, stops>>

-----------------------------------------------------------------------------
Next ==
    \/ \E p \in Procs : Start(p) \/ CreateKey(p) \/ WriteKey(p) \/ Stop(p)
    \/ \E provider \in Providers, url \in Endpoints, newKey, clear, enabled \in BOOLEAN :
          PutConfiguration(provider, url, newKey, clear, enabled)
    \/ \E new \in edits : SaveAIConfiguration(new)
    \/ DeleteAIConfiguration
    \/ CallProvider
    \/ \E c \in calling : ProviderReturns(c)

Spec == Init /\ [][Next]_vars

-----------------------------------------------------------------------------
(* What must hold.                                                         *)

Configuration ==
    [provider : Providers \cup {"none"}, url : Addresses \cup {"none"}, enabled : BOOLEAN,
     key : [for : Providers \cup {"none"}, at : Addresses \cup {"none"}, sealed : Procs \cup {"none"}]]
\* Every variable has its type, and nothing is under way while the server is
\* down.  A key that was not written to its end is never used.
TypeOK ==
    /\ keyFile \in Procs \cup {"none", "short"}
    /\ box \in [Procs -> Procs \cup {"down", "create", "write", "error"}]
    /\ conf \in Configuration /\ edits \subseteq Configuration /\ calling \subseteq Configuration
    /\ stops \in 0..MaxStops
    /\ ~Up => edits = {} /\ calling = {}

\* AI_ASSISTANT.md has the platform make one key file for all its secrets:
\* whichever process makes it, however they race and crash, a saved provider
\* key can be opened by every later server that has a key.
SecretsOpen == Ready(Server) /\ conf.key # NoKey => Opens(conf.key)

\* "Leaving the key field blank preserves the saved key", but not for another
\* provider: a key that was entered for a hosted provider is sent to that
\* provider's own address only, and one that was entered for a compatible
\* endpoint never to a hosted provider, neither when handlers save over each
\* other nor when a chat has read the configuration before it was changed.
\* (Between compatible endpoints the key does move: a PUT with another base URL
\* and no key keeps it.)
KeyFitsProvider ==
    \A c \in calling : c.key # NoKey =>
        /\ c.key.for = c.provider
        /\ c.provider \in Hosted => c.url = c.key.at
=============================================================================

----------------------- MODULE AssistantConfigProofs -----------------------
(***************************************************************************)
(* For any number of processes and endpoints: what was sealed can be       *)
(* opened, and a key is used just for its provider, a hosted one's just at *)
(* that provider's address.                                                *)
(*                                                                         *)
(* SecretsOpen relates a configuration to the server that runs now; to     *)
(* carry it through a restart the invariant relates everything to the key  *)
(* file, which no process replaces once it is whole (OneKey).              *)
(***************************************************************************)
EXTENDS AssistantConfig, TLAPS

\* A process writes the file just if it made it, and is the only one.
OneWriter ==
    \A p \in Procs : box[p] = "write" =>
        keyFile = "short" /\ \A q \in Procs : box[q] = "write" => q = p
\* Whoever has a key has the one in the file.
OneKey == \A p \in Procs : box[p] \in Procs => keyFile = box[p]
\* Every configuration that is stored or about to be is sealed with that key,
\* which was entered for its provider; a hosted provider has one address.
Sound(c) ==
    c.key # NoKey =>
        /\ c.key.sealed \in Procs /\ c.key.sealed = keyFile
        /\ c.provider \in Providers /\ c.key.for = c.provider
        /\ c.provider \in Hosted => c.url = c.provider /\ c.key.at = c.provider
Stored == Sound(conf) /\ \A c \in edits : Sound(c)

IInv == TypeOK /\ OneWriter /\ OneKey /\ Stored /\ KeyFitsProvider

\* At the start there is no file, no key and no configuration.
LEMMA InitHolds == Init => IInv
<1> SUFFICES ASSUME Init PROVE IInv
  OBVIOUS
<1> USE ProcsAssumption, ConfigBounds DEF Init, Procs, Providers, Hosted, Addresses
<1>1. NoKey \in [for : Providers \cup {"none"}, at : Addresses \cup {"none"}, sealed : Procs \cup {"none"}]
  BY DEF NoKey
<1>2. conf \in Configuration
  BY <1>1 DEF NoConf, Configuration
<1>3. TypeOK
  BY <1>2 DEF TypeOK, Up
<1>4. OneWriter /\ OneKey
  BY DEF OneWriter, OneKey
<1>5. Stored /\ KeyFitsProvider
  BY DEF Stored, Sound, KeyFitsProvider, NoConf
<1> QED
  BY <1>3, <1>4, <1>5 DEF IInv

\* A key file that is whole is never replaced, and a process that starts gets
\* the key of the file or none.
LEMMA KeyStep == TypeOK /\ OneWriter /\ OneKey /\ [Next]_vars => OneWriter' /\ OneKey' /\ (keyFile \in Procs => keyFile' = keyFile)
<1> SUFFICES ASSUME TypeOK, OneWriter, OneKey, [Next]_vars
             PROVE  OneWriter' /\ OneKey' /\ (keyFile \in Procs => keyFile' = keyFile)
  OBVIOUS
<1> USE ProcsAssumption DEF TypeOK, OneWriter, OneKey
<1>1. ASSUME NEW p \in Procs, Start(p)
      PROVE  OneWriter' /\ OneKey' /\ (keyFile \in Procs => keyFile' = keyFile)
  BY <1>1 DEF Start, Loaded
<1>2. ASSUME NEW p \in Procs, CreateKey(p)
      PROVE  OneWriter' /\ OneKey' /\ (keyFile \in Procs => keyFile' = keyFile)
  BY <1>2 DEF CreateKey, Loaded
<1>3. ASSUME NEW p \in Procs, WriteKey(p)
      PROVE  OneWriter' /\ OneKey' /\ (keyFile \in Procs => keyFile' = keyFile)
  BY <1>3 DEF WriteKey
<1>4. ASSUME NEW p \in Procs, Stop(p)
      PROVE  OneWriter' /\ OneKey' /\ (keyFile \in Procs => keyFile' = keyFile)
  BY <1>4 DEF Stop
<1>5. CASE UNCHANGED <<keyFile, box>>
  BY <1>5
<1>6. ASSUME NEW provider \in Providers, NEW url \in Endpoints, NEW newKey \in BOOLEAN,
             NEW clear \in BOOLEAN, NEW enabled \in BOOLEAN, PutConfiguration(provider, url, newKey, clear, enabled)
      PROVE  UNCHANGED <<keyFile, box>>
  BY <1>6 DEF PutConfiguration
<1> QED
  BY <1>1, <1>2, <1>3, <1>4, <1>5, <1>6
  DEF Next, SaveAIConfiguration, DeleteAIConfiguration, CallProvider, ProviderReturns, vars

\* Every step keeps the types.
LEMMA TypeStep == TypeOK /\ OneWriter /\ OneKey /\ [Next]_vars => TypeOK'
<1> SUFFICES ASSUME TypeOK, OneWriter, OneKey, [Next]_vars PROVE TypeOK'
  OBVIOUS
<1> USE ProcsAssumption, ConfigBounds DEF TypeOK, Up
<1>1. ASSUME NEW p \in Procs, Start(p) PROVE TypeOK'
  <2>1. box' \in [Procs -> Procs \cup {"down", "create", "write", "error"}]
    BY <1>1 DEF Start, Loaded
  <2>2. Up => Up'
    BY <1>1 DEF Start, Procs
  <2> QED
    BY <1>1, <2>1, <2>2 DEF Start
<1>2. ASSUME NEW p \in Procs, CreateKey(p) PROVE TypeOK'
  <2>1. box' \in [Procs -> Procs \cup {"down", "create", "write", "error"}]
    BY <1>2 DEF CreateKey, Loaded
  <2>2. Up => Up'
    BY <1>2 DEF CreateKey, Procs
  <2> QED
    BY <1>2, <2>1, <2>2 DEF CreateKey
<1>3. ASSUME NEW p \in Procs, WriteKey(p) PROVE TypeOK'
  <2>1. keyFile' \in Procs \cup {"none", "short"} /\ box' \in [Procs -> Procs \cup {"down", "create", "write", "error"}]
    BY <1>3 DEF WriteKey
  <2>2. Up => Up'
    BY <1>3 DEF WriteKey, Procs
  <2> QED
    BY <1>3, <2>1, <2>2 DEF WriteKey
<1>4. ASSUME NEW p \in Procs, Stop(p) PROVE TypeOK'
  <2>1. box' \in [Procs -> Procs \cup {"down", "create", "write", "error"}]
    BY <1>4 DEF Stop
  <2>2. p # Server /\ Up => Up'
    BY <1>4 DEF Stop, Procs
  <2> QED
    BY <1>4, <2>1, <2>2 DEF Stop
<1>5. ASSUME NEW provider \in Providers, NEW url \in Endpoints, NEW newKey \in BOOLEAN,
             NEW clear \in BOOLEAN, NEW enabled \in BOOLEAN, PutConfiguration(provider, url, newKey, clear, enabled)
      PROVE  TypeOK'
  <2> DEFINE base == BaseURL(provider, url)
             kept == IF clear THEN NoKey ELSE KeptKey(provider)
             key == IF newKey THEN Seal(provider, base) ELSE kept
             new == [provider |-> provider, url |-> base, key |-> key, enabled |-> enabled]
             KeyType == [for : Providers \cup {"none"}, at : Addresses \cup {"none"}, sealed : Procs \cup {"none"}]
  <2>1. NoKey \in KeyType /\ conf.key \in KeyType
    BY DEF NoKey, Configuration
  <2>a. base \in Addresses
    BY DEF BaseURL, Addresses
  <2>2. newKey => Seal(provider, base) \in KeyType
    BY <1>5, <2>a DEF PutConfiguration, Ready, Seal
  <2>3. kept \in KeyType
    BY <2>1 DEF KeptKey
  <2>4. key \in KeyType
    BY <2>2, <2>3
  <2>5. new \in Configuration
    BY <2>4, <2>a DEF Configuration
  <2> QED
    BY <1>5, <2>5 DEF PutConfiguration
<1>6. ASSUME NEW new \in edits, SaveAIConfiguration(new) PROVE TypeOK'
  BY <1>6 DEF SaveAIConfiguration
<1>7. CASE DeleteAIConfiguration
  <2>1. NoConf \in Configuration
    BY DEF NoConf, NoKey, Configuration
  <2> QED
    BY <1>7, <2>1 DEF DeleteAIConfiguration
<1>8. CASE CallProvider
  BY <1>8 DEF CallProvider
<1>9. ASSUME NEW c \in calling, ProviderReturns(c) PROVE TypeOK'
  BY <1>9 DEF ProviderReturns
<1>10. CASE UNCHANGED vars
  BY <1>10 DEF vars
<1> QED
  BY <1>1, <1>2, <1>3, <1>4, <1>5, <1>6, <1>7, <1>8, <1>9, <1>10 DEF Next

\* What is stored stays sealed with the key in the file: nobody seals anything
\* without the key, and the file does not change any more.
LEMMA StoredStep == TypeOK /\ OneWriter /\ OneKey /\ Stored /\ [Next]_vars => Stored'
<1> SUFFICES ASSUME TypeOK, OneWriter, OneKey, Stored, [Next]_vars PROVE Stored'
  OBVIOUS
<1>a. keyFile \in Procs => keyFile' = keyFile
  BY KeyStep
<1>b. \A c : Sound(c) => Sound(c)'
  BY <1>a DEF Sound
<1>1. ASSUME NEW provider \in Providers, NEW url \in Endpoints, NEW newKey \in BOOLEAN,
             NEW clear \in BOOLEAN, NEW enabled \in BOOLEAN, PutConfiguration(provider, url, newKey, clear, enabled)
      PROVE  Stored'
  <2> DEFINE base == BaseURL(provider, url)
             kept == IF clear THEN NoKey ELSE KeptKey(provider)
             key == IF newKey THEN Seal(provider, base) ELSE kept
             new == [provider |-> provider, url |-> base, key |-> key, enabled |-> enabled]
  <2>a. provider \in Hosted => base = provider
    BY DEF BaseURL
  <2>1. newKey => /\ key.sealed \in Procs /\ key.sealed = keyFile
                  /\ key.for = provider /\ key.at = base
    BY <1>1 DEF PutConfiguration, Ready, Seal, OneKey, Procs
  <2>2. kept # NoKey => /\ kept.sealed \in Procs /\ kept.sealed = keyFile
                        /\ kept.for = provider /\ (provider \in Hosted => kept.at = provider)
    <3>1. kept # NoKey => kept = conf.key /\ conf.key # NoKey /\ conf.provider \in {"none", provider}
      BY DEF KeptKey
    <3>2. Sound(conf)
      BY DEF Stored
    <3>3. "none" \notin Providers
      BY DEF Providers, Hosted
    <3> QED
      BY <3>1, <3>2, <3>3 DEF Sound
  <2>3. Sound(new)
    BY <2>a, <2>1, <2>2 DEF Sound
  <2>4. edits' = edits \cup {new} /\ conf' = conf
    BY <1>1 DEF PutConfiguration
  <2> QED
    BY <2>3, <2>4, <1>b DEF Stored
<1>2. ASSUME NEW new \in edits, SaveAIConfiguration(new) PROVE Stored'
  BY <1>2, <1>b DEF SaveAIConfiguration, Stored
<1>3. CASE DeleteAIConfiguration
  BY <1>3, <1>b DEF DeleteAIConfiguration, Stored, Sound, NoConf
<1>4. ASSUME NEW p \in Procs, Stop(p) PROVE Stored'
  BY <1>4, <1>b DEF Stop, Stored
<1>5. CASE UNCHANGED <<conf, edits>>
  BY <1>5, <1>b DEF Stored
<1> QED
  BY <1>1, <1>2, <1>3, <1>4, <1>5 DEF Next, Start, CreateKey, WriteKey, CallProvider, ProviderReturns, vars

\* A call takes the stored configuration as it is, and never changes it.
LEMMA CallStep == Stored /\ KeyFitsProvider /\ [Next]_vars => KeyFitsProvider'
<1> SUFFICES ASSUME Stored, KeyFitsProvider, [Next]_vars PROVE KeyFitsProvider'
  OBVIOUS
<1>1. CASE CallProvider
  BY <1>1 DEF CallProvider, KeyFitsProvider, Stored, Sound
<1>2. CASE calling' \subseteq calling
  BY <1>2 DEF KeyFitsProvider
<1>3. ASSUME NEW provider \in Providers, NEW url \in Endpoints, NEW newKey \in BOOLEAN,
             NEW clear \in BOOLEAN, NEW enabled \in BOOLEAN, PutConfiguration(provider, url, newKey, clear, enabled)
      PROVE  calling' = calling
  BY <1>3 DEF PutConfiguration
<1> QED
  BY <1>1, <1>2, <1>3
  DEF Next, Start, CreateKey, WriteKey, Stop, SaveAIConfiguration, DeleteAIConfiguration,
      ProviderReturns, vars

\* The invariant holds in every state.
LEMMA Inductive == Spec => []IInv
<1>1. IInv /\ [Next]_vars => IInv'
  BY KeyStep, TypeStep, StoredStep, CallStep DEF IInv
<1> QED
  BY InitHolds, <1>1, PTL DEF Spec

\* Every variable keeps its type, and no process works with a key that was not
\* written to its end.
THEOREM ConfigTypes == Spec => []TypeOK
  BY Inductive, PTL DEF IInv

\* However many processes race to make the key file, and whichever of them
\* crash, the provider key that was saved can be opened by every later server
\* that has a key.
THEOREM SecretsStayOpen == Spec => []SecretsOpen
<1>1. IInv => SecretsOpen
  BY DEF IInv, SecretsOpen, Stored, Sound, Opens, Ready, OneKey, Procs
<1> QED
  BY Inductive, <1>1, PTL

\* No interleaving of changes of the connection with chats and tests sends a
\* hosted provider's key anywhere but to that provider's address, or one of a
\* compatible endpoint to a hosted provider.
THEOREM KeysFit == Spec => []KeyFitsProvider
  BY Inductive, PTL DEF IInv
=============================================================================

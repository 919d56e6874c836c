---------------------------- MODULE SecretOptions ----------------------------
(***************************************************************************)
(* The options a connection is made with: those of the call (adbc_connect  *)
(* or ATTACH) merged with those of a secret that the call names, or whose  *)
(* scope covers the uri of the call.  Sessions create and drop secrets     *)
(* while a call looks them up.                                             *)
(*                                                                         *)
(* A value is a sequence of segments, <<>> the empty string; a scope is a  *)
(* prefix of the uris it covers.  Registering the connection, the load     *)
(* flags (use_manifests) and the search paths are left out, and so is what *)
(* the driver makes of the options; ConnectionRegistry has the rest.       *)
(***************************************************************************)
EXTENDS Naturals, FiniteSets, Sequences, SequencesExt, FiniteSetsExt, Subsequences

CONSTANTS
  Lower,          \* a function from the option keys to their lower case
  Value,          \* what an option may be set to, a set of sequences of segments
  Name,           \* the names of secrets
  Scope,          \* their scopes
  Parameters,     \* the named parameters of CREATE SECRET, as functions from keys
  ExtraOptions,   \* its extra_options, likewise
  ConnectOptions, \* the STRUCTs and MAPs given to adbc_connect, as sequences of options
  AttachOptions,  \* the options in parentheses of ATTACH
  Path,           \* what ATTACH is given to attach: a uri, or key=value pairs
  MaxSecrets      \* a bound on the secrets there are at a time

Key == DOMAIN Lower
Empty == <<>>
Null == <<"NULL">>          \* an SQL NULL, and how it reads as a string
AnOption == [key : Key, value : Value]

\* A secret has finitely many parameters, and a call finitely many options.
ASSUME OptionsAssumption ==
  /\ Lower \in [Key -> Key] /\ {"uri", "region"} \subseteq Key
  /\ {Empty, <<"east">>} \subseteq Value
  /\ \A p \in Parameters \cup ExtraOptions :
       DOMAIN p \subseteq Key /\ IsFiniteSet(DOMAIN p) /\ p \in [DOMAIN p -> Value]
  /\ ConnectOptions \subseteq Seq(AnOption) /\ AttachOptions \subseteq Seq(AnOption)
  /\ Path \subseteq [uri : Value, pairs : Seq(AnOption)]

VARIABLES
  secrets,        \* for each storage and name, the secret there, or NoSecret
  pc,             \* "idle", "lookup", "local_file", "merge", "connected" or "failed"
  explicit_options,
  found,          \* the secret found for the call, or NoSecret
  set_options     \* the options set on the database, in order

vars == <<secrets, pc, explicit_options, found, set_options>>

NoSecret == [type |-> "none", scope |-> Empty, secret_map |-> <<>>]

Init ==
  /\ secrets = [storage \in {"memory", "local_file"} |-> [name \in Name |-> NoSecret]]
  /\ pc = "idle"
  /\ explicit_options = <<>>
  /\ found = NoSecret
  /\ set_options = <<>>

Option(key, value) == [key |-> key, value |-> value]
KeysOf(options) == {options[i].key : i \in DOMAIN options}
HasKey(options, key) == key \in KeysOf(options)

\* The options whose key is one of some, and those whose key is none of them.
Only(options, keys) == Keep(options, {o \in AnOption : o.key \in keys})
Without(options, keys) == Keep(options, {o \in AnOption : o.key \notin keys})

\* The loops that keep the option they saw last; the empty string if none.
LastOf(options, key) ==
  LET at == {i \in DOMAIN options : options[i].key = key}
  IN  IF at = {} THEN Empty ELSE options[Max(at)].value

-----------------------------------------------------------------------------
(* Secrets.                                                                *)

\* The parameters come from an unordered map, extra_options among them, so an
\* extra option with the key of a parameter may be written before or after it.
SecretMaps(parameters, extra) ==
  LET Written(k) ==
        (IF k \in DOMAIN parameters THEN {parameters[k]} ELSE {})
          \cup (IF k \in DOMAIN extra
                THEN {IF extra[k] = Null THEN Empty ELSE extra[k]} ELSE {})
      keys == DOMAIN parameters \cup DOMAIN extra
  IN  {m \in [keys -> UNION {Written(k) : k \in keys}] : \A k \in keys : m[k] \in Written(k)}

\* CREATE SECRET (TYPE adbc) with some arguments; without a scope it throws.
AdbcSecrets ==
  {[type |-> "adbc", scope |-> s[1], secret_map |-> s[2]] :
     s \in (Scope \ {Empty})
             \X UNION {SecretMaps(p, e) : p \in Parameters, e \in ExtraOptions}}

\* The bound, for a secret that replaces none.
HasRoomFor(storage, name) ==
  \/ secrets[storage][name] # NoSecret
  \/ Cardinality({k \in (DOMAIN secrets) \X Name : secrets[k[1]][k[2]] # NoSecret}) < MaxSecrets

\* CREATE OR REPLACE [PERSISTENT] SECRET.
CreateAdbcSecret(storage, name) ==
  /\ HasRoomFor(storage, name)
  /\ \E s \in AdbcSecrets : secrets' = [secrets EXCEPT ![storage][name] = s]
  /\ UNCHANGED <<pc, explicit_options, found, set_options>>

\* A secret of another extension shares the names, not the type; its scope
\* covers everything.
CreateOtherSecret(storage, name) ==
  /\ HasRoomFor(storage, name)
  /\ secrets' = [secrets EXCEPT ![storage][name] =
                   [type |-> "other", scope |-> Empty,
                    secret_map |-> [k \in {"region"} |-> <<"east">>]]]
  /\ UNCHANGED <<pc, explicit_options, found, set_options>>

DropSecret(storage, name) ==
  /\ secrets' = [secrets EXCEPT ![storage][name] = NoSecret]
  /\ UNCHANGED <<pc, explicit_options, found, set_options>>

-----------------------------------------------------------------------------
(* The options of a call.                                                  *)

\* A NULL is left out of a STRUCT, and is the empty string in a MAP.
ExtractStruct(fields) == Keep(fields, {o \in AnOption : o.value # Null})
ExtractMap(fields) ==
  [i \in DOMAIN fields |->
     IF fields[i].value = Null THEN Option(fields[i].key, Empty) ELSE fields[i]]

\* ATTACH: its own options without batch_size, then the pairs of the path, or
\* the path as uri unless an option says it.
ExtractAttach(options, path) ==
  LET Lowered(s) == [i \in DOMAIN s |-> Option(Lower[s[i].key], s[i].value)]
      own == Without(Lowered(options), {"batch_size"})
      all == own \o Lowered(path.pairs)
  IN  IF path.uri # Empty /\ ~HasKey(all, "uri") THEN Append(all, Option("uri", path.uri))
                                                 ELSE all

Call(options) ==
  /\ pc = "idle"
  /\ pc' = "lookup"
  /\ explicit_options' = options
  /\ UNCHANGED <<secrets, found, set_options>>

AdbcConnect ==
  \E fields \in ConnectOptions : Call(ExtractStruct(fields)) \/ Call(ExtractMap(fields))
AdbcAttach ==
  \E options \in AttachOptions, path \in Path : Call(ExtractAttach(options, path))

-----------------------------------------------------------------------------
(* MergeSecretOptions: the lookup.                                         *)

SecretName == LastOf(explicit_options, "secret")
CallUri == LastOf(explicit_options, "uri")
ByName == SecretName # Empty
ByScope == ~ByName /\ CallUri # Empty

Stored(storage) == IF SecretName \in Name THEN secrets[storage][SecretName] ELSE NoSecret

\* LookupSecret: of the type's secrets that cover the uri, one with the longest
\* scope; of two of them in different storages, the one in memory.
Covering(storage, uri) ==
  {s \in {secrets[storage][n] : n \in Name} : s.type = "adbc" /\ IsPrefix(s.scope, uri)}
Best(S) == {s \in S : \A other \in S : Len(other.scope) <= Len(s.scope)}
LookupSecret(uri) ==
  LET all == Best(Covering("memory", uri) \cup Covering("local_file", uri))
  IN  IF all \cap Covering("memory", uri) # {} THEN all \cap Covering("memory", uri) ELSE all

AdbcGetSecretByUri ==
  /\ pc = "lookup" /\ ByScope
  /\ LET matches == LookupSecret(CallUri)
     IN  IF matches = {} THEN found' = NoSecret ELSE found' \in matches
  /\ pc' = "merge"
  /\ UNCHANGED <<secrets, explicit_options, set_options>>

NoLookup ==
  /\ pc = "lookup" /\ ~ByName /\ ~ByScope
  /\ pc' = "merge"
  /\ UNCHANGED <<secrets, explicit_options, found, set_options>>

\* AdbcGetSecretByName: first in memory, then among the persistent secrets.
GetSecretInMemory ==
  /\ pc = "lookup" /\ ByName
  /\ found' = Stored("memory")
  /\ pc' = IF found' = NoSecret THEN "local_file" ELSE "merge"
  /\ UNCHANGED <<secrets, explicit_options, set_options>>

GetSecretInFile ==
  /\ pc = "local_file"
  /\ found' = Stored("local_file")
  /\ pc' = IF found' = NoSecret THEN "failed" ELSE "merge"
  /\ UNCHANGED <<secrets, explicit_options, set_options>>

-----------------------------------------------------------------------------
(* MergeSecretOptions: the merge, and CreateConnectionFromOptions.         *)

\* The options of a secret, in some order.
AllOptions(secret_map) ==
  LET keys == SetToSeq(DOMAIN secret_map)
  IN  [i \in DOMAIN keys |-> Option(keys[i], secret_map[keys[i]])]

\* The explicit uri served only to find a secret that has a uri of its own.
UriWasLookup_Always(merged) == ByScope /\ found # NoSecret
UriWasLookup(merged) == ByScope /\ found # NoSecret /\ HasKey(merged, "uri")

MergeSecretOptions ==
  LET merged == AllOptions(found.secret_map)
      explicit_keys == (KeysOf(explicit_options) \ {"secret"})
                         \ (IF UriWasLookup(merged) THEN {"uri"} ELSE {})
  IN  Without(merged, explicit_keys) \o Only(explicit_options, explicit_keys)

\* driver, entrypoint and uri are set once, by their last value; the others as
\* they come.
DatabaseOptions(options) ==
  LET once == Keep(<<"driver", "entrypoint", "uri">>,
                   {k \in {"driver", "entrypoint", "uri"} : LastOf(options, k) # Empty})
  IN  [i \in DOMAIN once |-> Option(once[i], LastOf(options, once[i]))]
        \o Without(options, {"driver", "entrypoint", "uri", "secret"})

CreateConnectionFromOptions ==
  /\ pc = "merge"
  /\ LET options == MergeSecretOptions
     IN  IF LastOf(options, "driver") = Empty
         THEN pc' = "failed" /\ UNCHANGED set_options
         ELSE pc' = "connected" /\ set_options' = DatabaseOptions(options)
  /\ UNCHANGED <<secrets, explicit_options, found>>

\* The call has returned or thrown.
Return ==
  /\ pc \in {"connected", "failed"}
  /\ pc' = "idle"
  /\ explicit_options' = <<>>
  /\ found' = NoSecret
  /\ set_options' = <<>>
  /\ UNCHANGED secrets

Next ==
  \/ \E storage \in DOMAIN secrets, name \in Name :
       \/ CreateAdbcSecret(storage, name)
       \/ CreateOtherSecret(storage, name)
       \/ DropSecret(storage, name)
  \/ AdbcConnect \/ AdbcAttach
  \/ AdbcGetSecretByUri \/ NoLookup \/ GetSecretInMemory \/ GetSecretInFile
  \/ CreateConnectionFromOptions \/ Return

Spec == Init /\ [][Next]_vars

-----------------------------------------------------------------------------
(* What a caller may rely on.                                              *)

ValuesSet(key) == {set_options[i].value : i \in {j \in DOMAIN set_options :
                                                   set_options[j].key = key}}
ValuesGiven(key) == {explicit_options[i].value : i \in {j \in DOMAIN explicit_options :
                                                          explicit_options[j].key = key}}

\* The one exception to the rule that the call wins: a uri that found its secret
\* by scope stands aside for the uri of the secret.
StandsAside(key) == key = "uri" /\ ByScope /\ "uri" \in DOMAIN found.secret_map

\* The driver hears of an option that the call gave only what the call said, and
\* last what the call said last; an empty driver, entrypoint or uri is not set,
\* yet keeps the secret's away.
ExplicitWins(key) ==
  /\ ValuesSet(key) \subseteq ValuesGiven(key)
  /\ LastOf(set_options, key) = LastOf(explicit_options, key)

\* Of every other option it hears once what the secret says, if it says something.
SecretFillsIn(key) ==
  IF key \in DOMAIN found.secret_map
  THEN /\ ValuesSet(key) \subseteq {found.secret_map[key]}
       /\ LastOf(set_options, key) = found.secret_map[key]
  ELSE ValuesSet(key) = {}

\* A connection is made with the options of the call and, where the call is
\* silent, those of the secret found for it, whichever way the call was written
\* and the secret was found and whatever became of the secret meanwhile; the
\* option "secret" itself never reaches the driver.
OptionsAsDocumented ==
  pc = "connected" =>
    /\ ~HasKey(set_options, "secret")
    /\ \A key \in (Key \cup DOMAIN found.secret_map) \ {"secret"} :
         IF HasKey(explicit_options, key) /\ ~StandsAside(key) THEN ExplicitWins(key)
                                                              ELSE SecretFillsIn(key)

=============================================================================

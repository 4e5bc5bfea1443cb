------------------------------- MODULE ApiCalls -------------------------------
(***************************************************************************)
(* One consumer who calls an operation of ApiEndpoints, and goes on to the *)
(* next page if it has pages: what the client makes of the call (segment   *)
(* of src/src/api/apiPaths.ts, get and request of src/src/api/api.ts, the  *)
(* key rewriting of src/src/utils/case.ts, the query helpers of tokens.ts  *)
(* and events.ts), what the API reads in it, and what comes back.          *)
(*                                                                         *)
(* A key is a sequence of words with the way they are joined; words that   *)
(* start with a digit are left out.  Values of fields pass unchanged and   *)
(* are left out too; retries and timeouts are those of ApiRequest.         *)
(***************************************************************************)
EXTENDS ApiEndpoints, Naturals

CONSTANTS
  Arguments,  \* what callers put into paths
  UriEncoded, \* argument |-> its percent-encoding, where it has one
  UriParts,   \* argument |-> the segments a URL parser sees in it, where several
  Undefined,  \* a parameter left undefined
  Pages       \* pages of a list

\* The words of the paths, and their parameters' names.
Words == UNION {Range(Operations[m].path) : m \in DOMAIN Operations}

\* An argument that is a word of some path is served by that path.
ASSUME ArgumentsAreNoLiterals == Arguments \cap Words = {}

\* An encoding can be undone: it is of one argument, and unlike every argument that
\* encoding leaves alone and every word.  Nothing in a URL takes it apart, while an
\* argument that would be taken apart has one.  The empty argument has none.
ASSUME EncodingAssumption ==
  /\ \A v, w \in DOMAIN UriEncoded : UriEncoded[v] = UriEncoded[w] => v = w
  /\ Range(UriEncoded) \cap ((Arguments \ DOMAIN UriEncoded) \cup Words) = {}
  /\ Range(UriEncoded) \cap ({".", ".."} \cup DOMAIN UriParts) = {}
  /\ Arguments \cap DOMAIN UriParts \subseteq DOMAIN UriEncoded
  /\ "" \notin DOMAIN UriEncoded \cup Range(UriEncoded)

\* No word is taken apart either, and none is empty.
ASSUME WordsAssumption == Words \cap ({"", ".", ".."} \cup DOMAIN UriParts) = {}

\* The cursors are numbers, and there is a page.
ASSUME PagesAssumption == Pages \in Nat \ {0} /\ Undefined \notin Nat

VARIABLES
  method,  \* the operation
  given,   \* path parameter |-> argument
  params,  \* the single-word query parameters of the call
  pageBy,  \* the parameter the consumer pages with, or "both"
  step,    \* where the call is
  request, \* what is sent
  answer,  \* what the API answers
  pages    \* the pages the consumer has read

apiVars == <<method, given, params, pageBy, step, request, answer, pages>>

-----------------------------------------------------------------------------
(* Keys                                                                    *)

\* One word reads the same in either casing.
Key(words, style) == [words |-> words, style |-> IF Len(words) = 1 THEN "plain" ELSE style]

Snake(words) == Key(words, "snake")
Camel(words) == Key(words, "camel")

\* Every capital starts a word, and is lowered.
camelToSnake(key) == IF key.style = "camel" THEN Snake(key.words) ELSE key

\* Every underscore before a letter goes, and the letter is raised.
snakeToCamel(key) == IF key.style = "snake" THEN Camel(key.words) ELSE key

snakeizeKeysDeep(keys) == {camelToSnake(k) : k \in keys}
camelizeKeysDeep(keys) == {snakeToCamel(k) : k \in keys}

-----------------------------------------------------------------------------
(* What the client makes of a call                                         *)

Returned(v) == [ok |-> TRUE, value |-> v]
Threw == [ok |-> FALSE]

encodeURIComponent(value) == IF value \in DOMAIN UriEncoded THEN UriEncoded[value] ELSE value

\* Mutant: the value goes into the path as it is.
rawSegment(value) == Returned(value)

\* A path segment: encoded, or refused if no encoding can keep it one.
segment(value) == IF value \in {".", ".."} THEN Threw ELSE Returned(encodeURIComponent(value))

\* The path, unless an argument was refused.
Path(m, arguments) ==
  LET path == Operations[m].path
      Part(i) == IF path[i] \in PathParameters THEN segment(arguments[path[i]])
                                               ELSE Returned(path[i])
  IN  IF \A i \in DOMAIN path : Part(i).ok
      THEN Returned([i \in DOMAIN path |-> Part(i).value]) ELSE Threw

\* A cursor is the number of its page; none is the empty one.
EmptyCursor == 0

Without(record, names) == [n \in DOMAIN record \ names |-> record[n]]
With(record, name, value) ==
  [n \in DOMAIN record \cup {name} |-> IF n = name THEN value ELSE record[n]]

\* Mutant: the arguments are forwarded as they are.
asGiven(args) == args

\* The deprecated next is sent as cursor, unless it is empty or there is one.
withCursor(args) ==
  LET rest == Without(args, {"next"}) IN
  IF /\ "next" \in DOMAIN args /\ args["next"] \notin {EmptyCursor, Undefined}
     /\ ("cursor" \in DOMAIN rest => rest["cursor"] = Undefined)
  THEN With(rest, "cursor", args["next"])
  ELSE rest

withoutIgnoredChain(args) == Without(args, {"chain"})

TakesEitherCursor == {"getTrendingTokens", "getTopTokens"}
IgnoresChain == {"getEvents", "getEventsByCollection", "getEventsByNFT"}

\* The parameters an operation hands to the fetcher.
QueryOf(m, args) ==
  CASE m \in TakesEitherCursor -> withCursor(args)
    [] m \in IgnoresChain -> withoutIgnoredChain(args)
    [] OTHER -> args

\* Parameters without a value are dropped.
objectToSearchParams(args) ==
  Without(args, {n \in DOMAIN args : args[n] = Undefined})

\* Bodies that the SDK, or a protocol it carries, spells out: the envelope is in
\* snake_case and the Seaport order, or the criteria, in camelCase.
SeaportShaped == {"postListing", "postOffer", "buildOffer", "postCollectionOffer"}
MixedKeys == {Snake(<<"protocol", "address">>), Camel(<<"start", "time">>)}

\* Methods that write their query into the path key by key, and hand the fetcher
\* nothing that it could rewrite.
WritesItsQuery == {"validateMetadata", "removeSavedTool", "createCollectionImageUpload"}

\* The fields of a call that takes any, as the consumer or the SDK hands them to the
\* fetcher.
FieldsOf(m) ==
  CASE m \in WritesItsQuery -> {}
    [] m \in SeaportShaped -> MixedKeys
    [] OTHER -> {Camel(<<"first", "field">>), Key(<<"field">>, "plain")}

\* Mutant: the opt-out is forgotten.
snakeizesAlways(m) == TRUE

\* A query is always rewritten (that of revokeAgentRelationship by the method itself),
\* a body unless the operation opts out.
shouldSnakeize(m) == Operations[m].verb = "GET" \/ Operations[m].snakeizeBody

WireFields(m) == IF shouldSnakeize(m) THEN snakeizeKeysDeep(FieldsOf(m)) ELSE FieldsOf(m)

camelizeResponseBody(m, keys) ==
  IF Operations[m].camelizeResponse THEN camelizeKeysDeep(keys) ELSE keys

-----------------------------------------------------------------------------
(* The API                                                                 *)

\* Pushes a segment on a path as a URL parser does.
PushSegment(path, s) ==
  CASE s = "." -> path
    [] s = ".." -> IF path = <<>> THEN path ELSE Front(path)
    [] OTHER -> Append(path, s)

\* A URL is split at every slash.
PushParts(path, s) == path \o (IF s \in DOMAIN UriParts THEN UriParts[s] ELSE <<s>>)

\* It is split, and dot segments are removed.
Normalized(path) == FoldLeft(PushSegment, <<>>, FoldLeft(PushParts, <<>>, path))

\* A server decodes every segment once it has found it.
Decoded(path) ==
  [i \in DOMAIN path |->
     IF path[i] \in Range(UriEncoded)
     THEN CHOOSE v \in DOMAIN UriEncoded : UriEncoded[v] = path[i] ELSE path[i]]

\* The API's own name of an operation, which several methods may call.
Endpoint(m) == [verb |-> Operations[m].verb, path |-> Operations[m].path]

\* The endpoints that a request may be for; no parameter is empty, and a word of
\* the path goes before a parameter.
Serving(verb, path) ==
  LET fits == {e \in {Endpoint(m) : m \in DOMAIN Operations} :
                 /\ e.verb = verb /\ Len(e.path) = Len(path)
                 /\ \A i \in DOMAIN path : \/ e.path[i] = path[i]
                                           \/ e.path[i] \in PathParameters /\ path[i] # ""}
  IN  {e \in fits : \A f \in fits : \A i \in DOMAIN path :
                      e.path[i] \in PathParameters => f.path[i] \in PathParameters}

\* Endpoints that read camelCase, by the API's own schemas: the list that
\* test/api/walletAuthCasing.spec.ts:23-46 compares with them, the Seaport-shaped ones
\* and the token exchange that has no method aside.  All others read snake_case (8-13).
CamelOnTheWire ==
  {Endpoint(m) : m \in {"cancelOrder", "updateProfileSettings", "createProfileImageUpload",
                        "setProfileNftPfp", "linkWallet"}}

FieldsRead(e) ==
  CASE e \in {Endpoint(m) : m \in SeaportShaped} -> MixedKeys
    [] e \in CamelOnTheWire -> {Camel(<<"first", "field">>), Key(<<"field">>, "plain")}
    [] OTHER -> {Snake(<<"first", "field">>), Key(<<"field">>, "plain")}

\* The method the SDK has for an endpoint.
MethodFor(e) == CHOOSE m \in DOMAIN Operations : Endpoint(m) = e

\* Single-word parameters an endpoint documents.
Documented(e) ==
  {Operations[MethodFor(e)].page} \cup (IF MethodFor(e) = "getEventsByAccount" THEN {"chain"} ELSE {})

\* Responses that carry names which are data: trait names and signed form fields.
KeyedByData ==
  {Endpoint(m) : m \in {"getTraits", "createDropItemMediaUpload", "createDropAllowlistUpload",
                        "createDropCollectionManifestUpload", "createCollectionImageUpload",
                        "createProfileImageUpload"}}

DataNames == {Snake(<<"success", "action", "status">>), Camel(<<"dark", "brown">>)}
FieldNames(e) == {Key(<<"token">>, "plain")} \cup
                 IF e \in KeyedByData THEN {} ELSE {Snake(<<"is", "verified">>)}

AnswerKeys(e) == FieldNames(e) \cup IF e \in KeyedByData THEN DataNames ELSE {}

\* The page a query asks for, by the parameter that the endpoint reads.
PageAsked(e, query) ==
  LET by == Operations[MethodFor(e)].page IN
  IF by \in DOMAIN query /\ query[by] \in 1..Pages THEN query[by] ELSE 1

-----------------------------------------------------------------------------
(* A call                                                                  *)

NoRequest == [sent |-> FALSE]
NoAnswer == [served |-> {}]

ApiStart(m, arguments, parameters, by) ==
  /\ method = m /\ given = arguments /\ params = parameters /\ pageBy = by
  /\ step = "call" /\ request = NoRequest /\ answer = NoAnswer /\ pages = <<>>

apiIdle == step \in {"idle", "done"}

\* The operation builds its request, or throws.
Send ==
  /\ step = "call"
  /\ LET path == Path(method, given) IN
     IF path.ok
     THEN /\ request' = [sent |-> TRUE, path |-> path.value, fields |-> WireFields(method),
                         query |-> objectToSearchParams(QueryOf(method, params))]
          /\ step' = "sent"
     ELSE request' = request /\ step' = "done"
  /\ UNCHANGED <<method, given, params, pageBy, answer, pages>>

\* The API serves it, or does not know what it is.
Serve ==
  /\ step = "sent"
  /\ LET served == Serving(Operations[method].verb, Normalized(request.path)) IN
     answer' = IF Cardinality(served) # 1 THEN [served |-> served]
               ELSE LET e == CHOOSE e \in served : TRUE
                        page == PageAsked(e, request.query)
                    IN  [served |-> served, keys |-> AnswerKeys(e), page |-> page,
                         next |-> IF page < Pages THEN page + 1 ELSE Undefined]
  /\ step' = "answered"
  /\ UNCHANGED <<method, given, params, pageBy, request, pages>>

\* The consumer's next call, which asks with the next field of the answer.
PageOn(next) ==
  IF pageBy = "both" THEN [cursor |-> next, next |-> params["cursor"]]
                     ELSE With(params, pageBy, next)

\* The consumer reads the answer, and asks for the next page if there is one; a
\* list that repeats itself is read once too often and then given up.
Receive ==
  /\ step = "answered"
  /\ IF Cardinality(answer.served) = 1 /\ Operations[method].page # "none"
     THEN /\ pages' = Append(pages, answer.page)
          /\ IF answer.next # Undefined /\ Len(pages) < Pages
             THEN step' = "call" /\ params' = PageOn(answer.next)
             ELSE step' = "done" /\ params' = params
     ELSE step' = "done" /\ UNCHANGED <<pages, params>>
  /\ UNCHANGED <<method, given, pageBy, request, answer>>

ApiNext == Send \/ Serve \/ Receive
=============================================================================

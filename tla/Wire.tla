--------------------------------- MODULE Wire ---------------------------------
(***************************************************************************)
(* What the SDK and the API agree on: the exchange of ApiCalls and the     *)
(* signed message of Siwx, and what each has to come to.  A behaviour is   *)
(* one consumer's call, with its further pages, or one wallet's linking.   *)
(***************************************************************************)
EXTENDS ApiCalls, Siwx

CONSTANTS
  Calls,  \* the calls, each with its arguments, parameters and way of paging
  Links   \* the options of linkWalletWithSiwx

\* The parameters of an operation's path.
Placed(m) == PathParameters \cap Range(Operations[m].path)

\* The ways of paging an operation takes.
Cursors(m) ==
  IF m \in TakesEitherCursor THEN {"cursor", "next", "both"} ELSE {Operations[m].page}

\* A call fills in its path, pages in a way its operation takes, and begins with no
\* page: it leaves out every cursor, or has the one it pages with undefined or empty.
ASSUME CallsAssumption ==
  \A c \in Calls :
    /\ c.method \in DOMAIN Operations /\ c.arguments \in [Placed(c.method) -> Arguments]
    /\ c.by \in Cursors(c.method) /\ (c.by = "both" => c.params = [cursor |-> Undefined])
    /\ c.by # "both" =>
         /\ DOMAIN c.params \cap {"cursor", "next", "after"} \subseteq {c.by}
         /\ c.by \in DOMAIN c.params => c.params[c.by] \in {Undefined, EmptyCursor}

\* Resources come in lists, and what is left out is no text.
ASSUME LinksAssumption ==
  /\ Missing \notin {"", "fresh"}
  /\ \A o \in Links : o.resources \in Seq(Range(o.resources))

\* Two endpoints that the API could not tell apart.
LooksLike(e, f) ==
  /\ e.verb = f.verb /\ Len(e.path) = Len(f.path)
  /\ \A i \in DOMAIN e.path : \/ e.path[i] = f.path[i]
                               \/ {e.path[i], f.path[i]} \subseteq PathParameters

\* Two operations whose paths look the same to the API, the names of their parameters
\* aside, are of one endpoint, and page by the same parameter.
ASSUME EndpointsAssumption ==
  /\ \A m, n \in DOMAIN Operations :
       LooksLike(Endpoint(m), Endpoint(n)) =>
         Endpoint(m) = Endpoint(n) /\ Operations[m].page = Operations[n].page
  /\ \A m \in DOMAIN Operations : /\ Operations[m].path \in Seq(STRING)
                                  /\ Operations[m].page \in {"none", "cursor", "next", "after"}
  /\ \A m \in TakesEitherCursor : m \in DOMAIN Operations => Operations[m].page = "cursor"

vars == <<apiVars, linkVars>>

Init ==
  \/ /\ \E c \in Calls : ApiStart(c.method, c.arguments, c.params, c.by)
     /\ options = Missing /\ linkStep = "idle" /\ issued = {} /\ nonce = Missing
     /\ message = <<>> /\ payload = NoPayload /\ linkResult = "none"
  \/ /\ \E o \in Links : LinkStart(o)
     /\ method = Missing /\ given = <<>> /\ params = <<>> /\ pageBy = "none"
     /\ step = "idle" /\ request = NoRequest /\ answer = NoAnswer /\ pages = <<>>

Next ==
  \/ ApiNext /\ UNCHANGED linkVars
  \/ LinkNext /\ UNCHANGED apiVars

Spec == Init /\ [][Next]_vars

-----------------------------------------------------------------------------

\* An argument that no encoding keeps in one segment.
Refused == \E p \in DOMAIN given : given[p] \in {".", ".."}

\* A call reaches the endpoint it is for, with each argument in its own place,
\* whatever the arguments are made of, except that an empty one is served by no
\* endpoint.  A call is not sent only if an argument would leave its place
\* (apiPaths.ts:24-33 and the paths of every api/*.ts).
ArgumentsArrive ==
  /\ step = "done" /\ ~request.sent => Refused
  /\ step \in {"answered", "done"} /\ request.sent =>
       LET e == Endpoint(method)
           arrived == Decoded(Normalized(request.path))
       IN  /\ arrived = [i \in DOMAIN e.path |->
                           IF e.path[i] \in PathParameters THEN given[e.path[i]] ELSE e.path[i]]
           /\ answer.served = IF \E p \in DOMAIN given : given[p] = "" THEN {} ELSE {e}

\* The API finds in a call the fields it reads, spelled as its schemas spell them
\* (test/api/walletAuthCasing.spec.ts:23-46), and no parameter it does not document;
\* and the consumer finds in the answer every field in camelCase and every name that
\* is data as it was (api.ts:1600-1739 and the opt-outs of every api/*.ts).  What a
\* method writes into its query by hand is not compared: no schema is at hand for it.
FieldsArrive ==
  step \in {"answered", "done"} /\ request.sent =>
    LET e == Endpoint(method) IN
    /\ method \notin WritesItsQuery => request.fields = FieldsRead(e)
    /\ DOMAIN request.query \subseteq Documented(e)
    /\ answer.served # {} =>
         camelizeResponseBody(method, answer.keys) =
           {Camel(k.words) : k \in FieldNames(e)} \cup (answer.keys \cap DataNames)

\* Whichever cursor parameter an operation takes, asking with the last answer's
\* next reads every page once and in order (tokens.ts:53-69 takes either name).
PagesAdvance ==
  /\ \A i \in DOMAIN pages : pages[i] = i
  /\ step = "done" /\ pages # <<>> => Len(pages) = Pages

\* The message that the API rebuilds from the fields it is sent is the one that
\* the wallet signed, for every kind of wallet, statement, set of fields and
\* resources, so that a link is refused only if it does not arrive; a statement
\* that reads as a field's line itself is excepted (siwx.ts:112-262).
LinkedAsSigned ==
  payload.posted /\ StatementOf(options).label = "none" => payload.verified
=============================================================================

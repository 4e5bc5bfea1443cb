-------------------------------- MODULE MCWire --------------------------------
(* Small instances of Wire for TLC.                                        *)
EXTENDS Wire

MCUriEncoded == "a/b" :> "a%2Fb"
MCUriParts == "a/b" :> <<"a", "b">>

\* A first call leaves the cursor out, undefined or empty, and a call of events may
\* carry a chain.
FirstParams(m, by) ==
  CASE by = "none" -> {<<>>}
    [] by = "both" -> {[cursor |-> Undefined]}
    [] m \in IgnoresChain \cup {"getEventsByAccount"} -> {<<>>, [chain |-> "ethereum"]}
    [] OTHER -> {<<>>, by :> Undefined, by :> EmptyCursor}

\* Every operation with every argument in every place.
MCCalls ==
  UNION {UNION {[method : {m}, arguments : [Placed(m) -> Arguments], params : FirstParams(m, by),
                 by : {by}] : by \in Cursors(m)} : m \in DOMAIN Operations}

\* The optional fields present, empty or left out.
MCFields ==
  {[uri |-> "https://opensea.io", version |-> "1", chainId |-> "1", nonce |-> Missing,
    issuedAt |-> "now", expirationTime |-> e, notBefore |-> b, requestId |-> r] :
     e \in {Missing, "later"}, b \in {Missing, "now"}, r \in {Missing, "", "r1"}}

Options(token, formed, fields) ==
  [authToken : {token}, wellFormed : {formed}, chainArch : {"EVM", "SVM", "BITCOIN"},
   domain : {"opensea.io"}, scheme : {Missing, "https"},
   statement : {Missing, Blank, Line("none", "Hello"), Line("nonce", "mine"), Line("resources", "")},
   fields : fields, resources : {<<>>, <<"r1">>, <<"r1", "r2">>}]

\* Every message, and a few that are not well formed or that have no token.
MCLinks ==
  Options(TRUE, TRUE, MCFields)
  \cup UNION {Options(t, f, {CHOOSE x \in MCFields : TRUE}) : t \in BOOLEAN, f \in BOOLEAN}
=============================================================================

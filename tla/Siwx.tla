--------------------------------- MODULE Siwx ---------------------------------
(***************************************************************************)
(* Linking a wallet with a signed message (src/src/auth/siwx.ts): a nonce, *)
(* the message, its signature, and the fields the API rebuilds the message *)
(* from.                                                                   *)
(*                                                                         *)
(* A message is a sequence of lines, a line its label and its text: the    *)
(* prefix of a field, the header of the resources, the bullet of one, or   *)
(* no label.  Every text is one line.                                      *)
(***************************************************************************)
EXTENDS FiniteSets, SequencesExt, Naturals

CONSTANTS
  Missing,          \* an option that is left out
  DEFAULT_STATEMENT

VARIABLES
  options,   \* of the call
  linkStep,  \* what it waits for
  issued,    \* the nonces the API has issued and not seen again
  nonce,     \* the one of this call
  message,   \* its message
  payload,   \* what it posts
  linkResult

linkVars == <<options, linkStep, issued, nonce, message, payload, linkResult>>

Line(label, text) == [label |-> label, text |-> text]
Blank == Line("none", "")

\* FIELD_PREFIXES, in the order they are written.
FIELD_PREFIXES ==
  <<"uri", "version", "chainId", "nonce", "issuedAt", "expirationTime", "notBefore", "requestId">>

\* The items that are in a set, in their order.
Filter(items, set) ==
  FoldLeft(LAMBDA kept, item : IF item \in set THEN Append(kept, item) ELSE kept, <<>>, items)

chainArchToAccountType(arch) ==
  CASE arch = "EVM" -> "Ethereum" [] arch = "SVM" -> "Solana" [] arch = "BITCOIN" -> "Bitcoin"

-----------------------------------------------------------------------------
(* The message                                                             *)

\* A field that has no value is left out, and so are the resources.
FieldLines(fields) ==
  LET present == Filter(FIELD_PREFIXES, {k \in Range(FIELD_PREFIXES) :
                                           fields[k] \notin {Missing, ""}}) IN
  [i \in DOMAIN present |-> Line(present[i], fields[present[i]])]

ResourceLines(resources) ==
  IF resources = <<>> THEN <<>>
  ELSE <<Line("resources", "")>> \o [i \in DOMAIN resources |-> Line("item", resources[i])]

\* The whole of it; the origin is a domain with its scheme, if it has one.
Compose(origin, accountType, address, statement, fields, resources) ==
  <<Line(accountType, origin), Line("none", address), Blank>>
  \o (IF statement = Blank THEN <<>> ELSE <<statement>>)
  \o <<Blank>> \o FieldLines(fields) \o ResourceLines(resources)

\* getAddress gives an Ethereum address its checksum; others are kept.
formattedAddress(o) ==
  IF chainArchToAccountType(o.chainArch) = "Ethereum" THEN "checksummed" ELSE "asGiven"

OriginOf(o) == IF o.scheme = Missing THEN <<o.domain>> ELSE <<o.scheme, o.domain>>

StatementOf(o) == IF o.statement = Missing THEN Line("none", DEFAULT_STATEMENT) ELSE o.statement

createSiwxMessage(o, n) ==
  Compose(OriginOf(o), chainArchToAccountType(o.chainArch), formattedAddress(o), StatementOf(o),
          [k \in Range(FIELD_PREFIXES) |-> IF k = "nonce" THEN n ELSE o.fields[k]], o.resources)

\* The chain id, domain, nonce, scheme, URIs and version have their form.
validateFields(o) == o.wellFormed

-----------------------------------------------------------------------------
(* Parsing it                                                              *)

Indices(lines, Is(_)) == {i \in 3..Len(lines) : Is(lines[i])}

\* One after the last line, if there is none.
FirstIndex(lines, Is(_)) ==
  LET all == Indices(lines, Is) IN
  IF all = {} THEN Len(lines) + 1 ELSE CHOOSE i \in all : \A j \in all : i <= j

ResourcesAt(lines) == FirstIndex(lines, LAMBDA line : line.label = "resources")

\* A field is the first line before the resources that has its prefix and a text.
parsedField(lines, key) ==
  LET at == FirstIndex(lines, LAMBDA line : line.label = key /\ line.text # "") IN
  IF at < ResourcesAt(lines) THEN lines[at].text ELSE Missing

\* Mutant: the blank lines around the statement are kept.
untrimmed(lines) == lines

\* The statement's lines, without the blank ones before and behind them.
trimmed(lines) ==
  LET filled == {i \in DOMAIN lines : lines[i] # Blank} IN
  IF filled = {} THEN <<>>
  ELSE LET first == CHOOSE i \in filled : \A j \in filled : i <= j
           last == CHOOSE i \in filled : \A j \in filled : i >= j
       IN  SubSeq(lines, first, last)

parseSiwxMessage(lines) ==
  LET firstField == FirstIndex(lines, LAMBDA line :
                                 line.label \in Range(FIELD_PREFIXES) \cup {"resources"})
      items == Filter(SubSeq(lines, ResourcesAt(lines) + 1, Len(lines)),
                      {line \in Range(lines) : line.label = "item"})
  IN  [origin |-> lines[1].text, accountType |-> lines[1].label, address |-> lines[2].text,
       statement |-> trimmed(SubSeq(lines, 3, firstField - 1)),
       fields |-> [k \in Range(FIELD_PREFIXES) |-> parsedField(lines, k)],
       resources |-> [i \in DOMAIN items |-> items[i].text]]

\* The API's: EIP-4361's message of the fields it is sent.
Rebuilt(m) ==
  LET whole == Compose(m.origin, m.accountType, m.address, Blank, m.fields, m.resources)
  IN  IF m.statement = <<>> THEN whole ELSE SubSeq(whole, 1, 3) \o m.statement \o SubSeq(whole, 4, Len(whole))

-----------------------------------------------------------------------------
(* linkWalletWithSiwx                                                      *)

NoPayload == [posted |-> FALSE, verified |-> FALSE]

LinkStart(o) ==
  /\ options = o /\ linkStep = "token" /\ issued = {} /\ nonce = Missing
  /\ message = <<>> /\ payload = NoPayload /\ linkResult = "none"

linkIdle == linkStep \in {"idle", "settled"}

Throws == linkStep' = "settled" /\ linkResult' = "threw"
Awaits(what) == linkStep' = what /\ linkResult' = linkResult

CheckAuthToken ==
  /\ linkStep = "token"
  /\ IF options.authToken THEN Awaits("nonce") ELSE Throws
  /\ UNCHANGED <<options, issued, nonce, message, payload>>

\* requestSiwxNonce; the answer may be lost.
RequestSiwxNonce ==
  /\ linkStep = "nonce"
  /\ \E issues \in BOOLEAN :
       /\ issued' = IF issues THEN {"fresh"} ELSE issued
       /\ \/ issues /\ nonce' = "fresh" /\ Awaits("address")
          \/ Throws /\ nonce' = nonce
  /\ UNCHANGED <<options, message, payload>>

\* signer.getAddress, then the message.
BuildMessage ==
  /\ linkStep = "address"
  /\ \/ /\ validateFields(options)
        /\ message' = createSiwxMessage(options, nonce) /\ Awaits("signature")
     \/ Throws /\ message' = message
  /\ UNCHANGED <<options, issued, nonce, payload>>

SignMessage ==
  /\ linkStep = "signature"
  /\ \/ /\ payload' = [posted |-> FALSE, verified |-> FALSE, message |-> parseSiwxMessage(message),
                       signature |-> message, chainArch |-> options.chainArch]
        /\ Awaits("link")
     \/ Throws /\ payload' = payload
  /\ UNCHANGED <<options, issued, nonce, message>>

\* The API links the wallet if the message it rebuilds is the one signed and its
\* nonce is one it has issued, which is used up either way.
Verifies ==
  /\ Rebuilt(payload.message) = payload.signature
  /\ payload.message.fields["nonce"] \in issued
  /\ payload.message.accountType = chainArchToAccountType(payload.chainArch)

\* The request is lost, or served; its answer may be lost.
PostLink ==
  /\ linkStep = "link"
  /\ \E reaches \in BOOLEAN :
       /\ issued' = IF reaches THEN issued \ {payload.message.fields["nonce"]} ELSE issued
       /\ payload' = [payload EXCEPT !.posted = reaches, !.verified = Verifies]
       /\ \/ reaches /\ Verifies /\ linkStep' = "settled" /\ linkResult' = "linked"
          \/ Throws
  /\ UNCHANGED <<options, nonce, message>>

LinkNext == CheckAuthToken \/ RequestSiwxNonce \/ BuildMessage \/ SignMessage \/ PostLink
=============================================================================

------------------------------- MODULE Contents -------------------------------
(***************************************************************************)
(* The body of a request, brought into the form the upstream expects:      *)
(* internal/normalize/gemini/normalize.go and                              *)
(* internal/compat/imagepreview/imagepreview.go.                           *)
(*                                                                         *)
(* Abstractions.  A field that may be absent is a sequence of at most one  *)
(* value.  A part of a content is of one kind and has a name, which only a *)
(* call and a response use, and a signature; "none" is no name, no         *)
(* signature or no role, "other" a role that is unknown.                   *)
(* A body that is empty, no JSON, or whose contents are no array is not    *)
(* "legal".  The picture and the text of a placeholder are left out.       *)
(***************************************************************************)
EXTENDS Integers, Sequences, FiniteSets

Roles == {"user", "model"}

Part(kind, name, signature) == [kind |-> kind, name |-> name, signature |-> signature]

\* renameJSONPathRaw: the value moves, over one that is there already.
Renamed(o, old, new) ==
  IF o[old] = <<>> THEN o ELSE [o EXCEPT ![new] = o[old], ![old] = <<>>]

\* normalizeToolDeclarations
NormalizeTools(tools) ==
  LET Declaration(d) == Renamed(d, "parameters", "parametersJsonSchema")
      Tool(t) ==
        LET renamed == Renamed(t, "functionDeclarations", "function_declarations")
        IN  [renamed EXCEPT !.function_declarations =
               [i \in DOMAIN @ |-> [j \in DOMAIN @[i] |-> Declaration(@[i][j])]]]
  IN  [i \in DOMAIN tools |-> Tool(tools[i])]

\* a role that is made up by its place alone
MutantContentRoles(cs) ==
  LET last == IF cs = <<>> THEN "user" ELSE cs[Len(cs)].role
  IN  [i \in DOMAIN cs |->
         IF cs[i].role \in Roles THEN cs[i]
         ELSE [cs[i] EXCEPT !.role = IF last = "user" THEN "model" ELSE "user"]]

\* normalizeContentRoles: a role that is missing or unknown is the other one than before.
NormalizeContentRoles(cs) ==
  LET role[i \in 0..Len(cs)] ==
        IF i = 0 THEN "none"
        ELSE IF cs[i].role \in Roles THEN cs[i].role
        ELSE IF role[i - 1] = "user" THEN "model" ELSE "user"
  IN  [i \in DOMAIN cs |-> [cs[i] EXCEPT !.role = role[i]]]

\* normalizeThoughtSignatures: the upstream is told to skip the check of every call.
NormalizeThoughtSignatures(cs) ==
  LET Skip(p) == IF p.kind = "call" \/ p.signature # "none" THEN [p EXCEPT !.signature = "skip"] ELSE p
  IN  [i \in DOMAIN cs |->
         IF cs[i].role = "model"
         THEN [cs[i] EXCEPT !.parts = [j \in DOMAIN @ |-> Skip(@[j])]]
         ELSE cs[i]]

\* The names of the calls, in order; a call without a name leaves no gap.
CallNames(parts) ==
  LET IsNamedCall(p) == p.kind = "call" /\ p.name # "none"
      calls == SelectSeq(parts, IsNamedCall)
  IN  [k \in DOMAIN calls |-> calls[k].name]

ResponsesUpTo(parts, j) == Cardinality({k \in 1..j : parts[k].kind = "response"})

\* The calls that a content may answer: those of the model's content just before it.
PendingCallNames(cs, i) ==
  IF i > 1 /\ cs[i - 1].role = "model" THEN CallNames(cs[i - 1].parts) ELSE <<>>

\* backfillEmptyFunctionResponseNames
BackfillEmptyFunctionResponseNames(cs) ==
  LET Filled(i, parts, j) ==
        LET pending == PendingCallNames(cs, i)
            k == ResponsesUpTo(parts, j)
        IN  IF parts[j].kind = "response" /\ parts[j].name = "none" /\ k <= Len(pending)
            THEN [parts[j] EXCEPT !.name = pending[k]]
            ELSE parts[j]
  IN  [i \in DOMAIN cs |->
         IF cs[i].role = "model" THEN cs[i]
         ELSE [cs[i] EXCEPT !.parts = [j \in DOMAIN @ |-> Filled(i, @, j)]]]

NormalizeContents(cs) ==
  BackfillEmptyFunctionResponseNames(NormalizeThoughtSignatures(NormalizeContentRoles(cs)))

\* AttachSafetySettings: the client's own are never replaced.
AttachSafetySettings(body, safetyMode) ==
  IF safetyMode = "off" \/ body.safetySettings # <<>> THEN body
  ELSE [body EXCEPT !.safetySettings = <<"default">>]

\* NormalizeRequest; nothing for an error.
NormalizeRequest(body, safetyMode) ==
  IF ~body.legal THEN <<>>
  ELSE LET schema == Renamed(body, "responseSchema", "responseJsonSchema")
           inner == [schema EXCEPT !.tools = NormalizeTools(@),
                                   !.contents = [k \in DOMAIN @ |-> NormalizeContents(@[k])]]
       IN  <<AttachSafetySettings(inner, safetyMode)>>

-----------------------------------------------------------------------------
(* imagepreview.Apply *)

HasInlineData(cs) ==
  \E i \in DOMAIN cs : \E j \in DOMAIN cs[i].parts : cs[i].parts[j].kind = "image"

Placeholder == <<Part("text", "none", "none"), Part("image", "none", "none")>>

\* A ratio without a picture becomes a request to fill a white one.
ApplyImagePreview(model, body, enabled) ==
  IF \/ ~enabled \/ model # "gemini-2.5-flash-image"
     \/ ~body.aspectRatio \/ body.contents \in {<<>>, << <<>> >>}
  THEN body
  ELSE IF HasInlineData(body.contents[1]) THEN [body EXCEPT !.aspectRatio = FALSE]
  ELSE [body EXCEPT !.aspectRatio = FALSE,
                    !.responseModalities = <<"image and text">>,
                    !.contents[1][1].parts = Placeholder \o @]

=============================================================================

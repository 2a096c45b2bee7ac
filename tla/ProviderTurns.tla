----------------------------- MODULE ProviderTurns -----------------------------
(***************************************************************************)
(* A conversation of one client through one of the gateway's three wire    *)
(* formats (gateway/adapters): OpenAI chat completions, OpenAI responses   *)
(* and Anthropic messages.  The client sends its whole history with every  *)
(* request; the adapter lowers it to internal messages; the session        *)
(* generates an answer, which the adapter turns into a response or a       *)
(* stream; the client echoes it in its next request.  The session goes on  *)
(* with a chain of tokens only if the lowered messages extend those of the *)
(* chain, which is what the conversions must preserve.                     *)
(*                                                                         *)
(* A text is a sequence of pieces; every text a party writes is a new      *)
(* piece.  Wire content is a list of blocks, a string being a list of one  *)
(* text block: both are lowered alike.  A name is a sequence of segments   *)
(* joined by two underscores.  The ids of calls are left out: clients echo *)
(* them, and the comparison of histories drops them.                       *)
(* Bounds: MaxAnswers and MaxInputs of the client; the answers, tool lists *)
(* and late inputs of the constants.                                       *)
(***************************************************************************)
EXTENDS Integers, SequencesExt

CONSTANTS
  Providers,   \* those of "chat", "responses", "messages" that are examined
  ToolLists,   \* tool declarations of a client: [kind, space, name, deferred]
  Extras,      \* tool declarations it may add later (responses)
  Answers,     \* what the model may answer: [text, calls], calls of [name, of]
  MaxAnswers, MaxInputs

VARIABLES
  provider, tools,
  wire,      \* the client's history
  phase,     \* client, sent, echoed, refused
  lowered,   \* the messages of the last request
  offered,   \* the names of the tools the model is offered with it
  chain,     \* the history of the session's chain
  owed,      \* calls of the last answer without a result
  pieces,    \* texts written so far
  answered, inputs,
  drifted    \* why the chain need not be extended by what the client sends

vars == <<provider, tools, wire, phase, owed, lowered, offered, chain, pieces, answered, inputs, drifted>>

NL == 0
Image == <<-1>>
NoText == <<>>
Joined(texts) == FlattenSeq([i \in DOMAIN texts |-> IF i = 1 THEN texts[i] ELSE <<NL>> \o texts[i]])

-----------------------------------------------------------------------------
(* Tool calls.  The arguments of a call are an object or its JSON text,    *)
(* form; of says what is in them: "input" is an input string and nothing   *)
(* else, "input_more" has other fields too, "fields" has no input string,  *)
(* "invalid" is a text that is not a JSON object.                          *)

Object(of) == [form |-> "object", of |-> of]
Text(of) == [form |-> "text", of |-> of]

\* normalize_tool_arguments.
Normalized(args) == IF args.of = "invalid" THEN Text("invalid") ELSE Object(args.of)

Dumped(args) == Text(args.of)

\* _tool_call_input of the Anthropic adapter.
AsInput(args) == IF args.form = "object" THEN args ELSE Object("empty")

\* _custom_input and _custom_arguments of the responses adapter.
CustomInput(args) == IF args.of \in {"input", "input_more"} THEN "input" ELSE "dumped"
CustomArguments(input) == Object(input)

Space(tool) == SelectSeq(tool.space, LAMBDA s : s # "functions")
Qualified(tool) == Space(tool) \o tool.name

\* _declared_name: that of the outermost namespace.
DeclaredName(tool) == IF tool.space # <<>> THEN <<Head(tool.space)>> ELSE tool.name

\* _collect_tool_defs: tools of additional_tools items do not replace others.
Collected ==
  LET extra == FlattenSeq([i \in DOMAIN wire |->
                 IF provider = "responses" /\ wire[i].type = "additional_tools" THEN wire[i].tools ELSE <<>>])
      names == {DeclaredName(t) : t \in ToSet(tools)}
  IN IF tools = <<>> THEN extra
     ELSE tools \o SelectSeq(extra, LAMBDA t : DeclaredName(t) \notin names)

\* Mutant: of two declarations of one name the later wins.
UnambiguousKinds(declared) ==
  \A t, u \in ToSet(declared) : Qualified(t) = Qualified(u) => t.kind = u.kind

\* _merge_tool_names and _merge_tool_kinds refuse other declarations.
Unambiguous(declared) ==
  \A t, u \in ToSet(declared) :
    Qualified(t) = Qualified(u) => t.kind = u.kind /\ Space(t) = Space(u) /\ t.name = u.name

\* The names the model is offered: deferred tools of the responses API are not,
\* and none is with the tool choice "none".  All choices but these two are
\* refused.
Offered(choice) ==
  {Qualified(t) : t \in {u \in ToSet(Collected) :
     choice = "auto" /\ (provider # "responses" \/ ~u.deferred)}}

-----------------------------------------------------------------------------
(* Internal messages: role, content, a list of texts and images in which a *)
(* string is one text, and calls of [name, args].                          *)

Message(role, content, calls) == [role |-> role, content |-> content, calls |-> calls]
Plain(role, text) == Message(role, <<text>>, <<>>)

\* OpenAI chat: openai_to_internal.
LowerChat(messages) ==
  [i \in DOMAIN messages |->
     Message(messages[i].role, messages[i].content,
             [j \in DOMAIN messages[i].calls |->
                [messages[i].calls[j] EXCEPT !.args = Normalized(@)]])]

-----------------------------------------------------------------------------
(* OpenAI responses: _messages_from_input.                                 *)

NoPending == [content |-> <<>>, calls |-> <<>>]

\* Mutant: the text and the calls of a turn become two messages.
FlushedApart(acc) ==
  LET text == FlattenSeq(acc.pending.content) IN
  acc.messages \o (IF text = NoText THEN <<>> ELSE <<Plain("assistant", text)>>)
    \o (IF acc.pending.calls = <<>> THEN <<>> ELSE <<Message("assistant", <<NoText>>, acc.pending.calls)>>)

\* _flush_assistant_pending.
Flushed(acc) ==
  IF FlattenSeq(acc.pending.content) = NoText /\ acc.pending.calls = <<>> THEN acc.messages
  ELSE Append(acc.messages, Message("assistant", <<FlattenSeq(acc.pending.content)>>, acc.pending.calls))

\* _content_to_chat_content: a list of parts only with an image.
ChatContent(blocks) ==
  IF Image \in ToSet(blocks) THEN SelectSeq(blocks, LAMBDA b : b # NoText) ELSE <<FlattenSeq(blocks)>>

\* One input item.
TakeItem(acc, item) ==
  CASE item.type = "additional_tools" -> acc
    [] item.type = "message" /\ item.role = "assistant" ->
         [acc EXCEPT !.pending.content = Append(@, FlattenSeq(item.content))]
    [] item.type = "message" /\ item.role # "assistant" ->
         [messages |-> Append(Flushed(acc),
            Message(IF item.role = "developer" THEN "system" ELSE item.role, ChatContent(item.content), <<>>)),
          pending |-> NoPending]
    [] item.type = "function_call" ->
         [acc EXCEPT !.pending.calls =
            Append(@, [name |-> item.space \o item.name, args |-> Normalized(item.args)])]
    [] item.type = "custom_tool_call" ->
         [acc EXCEPT !.pending.calls =
            Append(@, [name |-> item.space \o item.name, args |-> CustomArguments(item.args.of)])]
    [] item.type = "function_call_output" ->
         [messages |-> Append(Flushed(acc), Message("tool", ChatContent(item.content), <<>>)),
          pending |-> NoPending]

\* canonicalize_messages: one system message, in front.
Canonicalized(messages) ==
  LET system == SelectSeq(messages, LAMBDA m : m.role = "system")
      others == SelectSeq(messages, LAMBDA m : m.role # "system")
  IN IF system = <<>> THEN messages
     ELSE LET texts == [i \in DOMAIN system |-> system[i].content[1]] IN
          <<Plain("system", Joined(SelectSeq(texts, LAMBDA t : t # NoText)))>> \o others

LowerResponses(items) ==
  LET read == Flushed(FoldLeft(TakeItem, [messages |-> <<>>, pending |-> NoPending], items))
      addressed == \E i \in DOMAIN read : read[i].role \in {"system", "user"}
  IN Canonicalized(IF addressed THEN read ELSE Append(read, Plain("user", NoText)))

-----------------------------------------------------------------------------
(* Anthropic messages: blocks of [type, text, blocks, name, args].         *)

\* Mutant: of two reminders before the first user message one is kept.
FoldSystemOnce(acc, message) ==
  LET users == {i \in DOMAIN acc.out : acc.out[i].role = "user"}
      block(text) == [type |-> "text", text |-> text]
  IN CASE message.role = "system" /\ users # {} ->
            [acc EXCEPT !.out[CHOOSE i \in users : \A j \in users : j <= i].content =
               Append(@, block(message.content[1].text))]
       [] message.role = "system" /\ users = {} ->
            [acc EXCEPT !.pending = <<message.content[1].text>>]
       [] message.role = "user" /\ acc.pending # <<>> ->
            [out |-> Append(acc.out, [message EXCEPT !.content = <<block(Joined(acc.pending))>> \o @]),
             pending |-> <<>>]
       [] message.role = "assistant" \/ (message.role = "user" /\ acc.pending = <<>>) ->
            [acc EXCEPT !.out = Append(@, message)]

\* _fold_mid_list_system_into_user: a reminder goes to the last user message
\* before it, or is put in front of the next one.
FoldSystem(acc, message) ==
  LET users == {i \in DOMAIN acc.out : acc.out[i].role = "user"}
      block(text) == [type |-> "text", text |-> text]
  IN CASE message.role = "system" /\ users # {} ->
            [acc EXCEPT !.out[CHOOSE i \in users : \A j \in users : j <= i].content =
               Append(@, block(message.content[1].text))]
       [] message.role = "system" /\ users = {} ->
            [acc EXCEPT !.pending = Append(@, message.content[1].text)]
       [] message.role = "user" /\ acc.pending # <<>> ->
            [out |-> Append(acc.out, [message EXCEPT !.content = <<block(Joined(acc.pending))>> \o @]),
             pending |-> <<>>]
       [] message.role = "assistant" \/ (message.role = "user" /\ acc.pending = <<>>) ->
            [acc EXCEPT !.out = Append(@, message)]

SystemFolded(messages) ==
  LET folded == FoldLeft(FoldSystem, [out |-> <<>>, pending |-> <<>>], messages) IN
  IF folded.pending = <<>> THEN folded.out
  ELSE Append(folded.out, [role |-> "user",
                           content |-> <<[type |-> "text", text |-> Joined(folded.pending)]>>])

\* flush_user: a single string unless there is an image.
UserFlushed(acc) ==
  IF acc.parts = <<>> THEN acc.messages
  ELSE Append(acc.messages,
              Message("user", IF Image \in ToSet(acc.parts) THEN acc.parts ELSE <<Joined(acc.parts)>>, <<>>))

ToolFlushed(acc) ==
  IF acc.parts = <<>> THEN acc.messages ELSE Append(acc.messages, Plain("tool", Joined(acc.parts)))

\* Mutant: an image needs no tool message before it.
TakeResultUnclosed(acc, block) ==
  IF block.type = "text" THEN [acc EXCEPT !.parts = Append(@, block.text)]
  ELSE [messages |-> Append(ToolFlushed(acc), Message("user", <<Image>>, <<>>)), parts |-> <<>>]

\* A block of a tool result.  An image becomes a user message; some tool
\* message comes first.
TakeResult(acc, block) ==
  IF block.type = "text" THEN [acc EXCEPT !.parts = Append(@, block.text)]
  ELSE LET closed == IF acc.parts = <<>> /\ acc.messages = <<>> THEN <<Plain("tool", NoText)>>
                     ELSE ToolFlushed(acc)
       IN [messages |-> Append(closed, Message("user", <<Image>>, <<>>)), parts |-> <<>>]

\* _tool_result_messages.
ToolResult(blocks) ==
  LET results == ToolFlushed(FoldLeft(TakeResult, [messages |-> <<>>, parts |-> <<>>], blocks)) IN
  IF results = <<>> THEN <<Plain("tool", NoText)>> ELSE results

TakeBlock(acc, block) ==
  CASE block.type = "text" -> [acc EXCEPT !.parts = Append(@, block.text)]
    [] block.type = "image" -> [acc EXCEPT !.parts = Append(@, Image)]
    [] block.type = "tool_result" ->
         [messages |-> UserFlushed(acc) \o ToolResult(block.blocks), parts |-> <<>>]

\* _user_messages_from_content and _assistant_message_from_content.
LowerMessage(message) ==
  IF message.role = "user"
  THEN UserFlushed(FoldLeft(TakeBlock, [messages |-> <<>>, parts |-> <<>>], message.content))
  ELSE LET texts == SelectSeq(message.content, LAMBDA b : b.type = "text")
           uses == SelectSeq(message.content, LAMBDA b : b.type = "tool_use")
       IN <<Message("assistant", <<Joined([i \in DOMAIN texts |-> texts[i].text])>>,
                    [i \in DOMAIN uses |-> [name |-> uses[i].name, args |-> uses[i].args]])>>

\* anthropic_to_internal, the system prompt of the request included.
LowerMessages(request) ==
  LET system == SelectSeq(request, LAMBDA m : m.role = "prompt")
      folded == SystemFolded(SelectSeq(request, LAMBDA m : m.role # "prompt"))
  IN [i \in DOMAIN system |-> Plain("system", system[i].content[1].text)]
       \o FlattenSeq([i \in DOMAIN folded |-> LowerMessage(folded[i])])

Lower(history) ==
  CASE provider = "chat" -> LowerChat(history)
    [] provider = "responses" -> LowerResponses(history)
    [] provider = "messages" -> LowerMessages(history)

-----------------------------------------------------------------------------
(* The answer: decode_response, the adapter's response, and its stream.    *)

Decoded(answer, text) ==
  Message("assistant", <<text>>,
          [i \in DOMAIN answer.calls |->
             [name |-> answer.calls[i].name, args |-> Normalized(Text(answer.calls[i].of))]])

\* _split_namespaced_name: the declaration of a qualified name.
Declaration(name) ==
  LET declared == SelectSeq(Collected, LAMBDA t : Qualified(t) = name) IN
  IF declared = <<>> THEN [kind |-> "function", space |-> <<>>, name |-> name]
  ELSE [kind |-> declared[1].kind, space |-> Space(declared[1]), name |-> declared[1].name]

\* _output_items: custom tools get their input back, all others their arguments.
OutputItems(message) ==
  LET said == [type |-> "message", role |-> "assistant", content |-> message.content]
      item(call) ==
        LET tool == Declaration(call.name) IN
        [type |-> IF tool.kind = "custom" THEN "custom_tool_call" ELSE "function_call",
         space |-> tool.space, name |-> tool.name,
         args |-> IF tool.kind = "custom" THEN Text(CustomInput(call.args)) ELSE Dumped(call.args)]
  IN (IF message.content[1] = NoText THEN <<>> ELSE <<said>>)
       \o [i \in DOMAIN message.calls |-> item(message.calls[i])]

\* _outcome_to_blocks.
Blocks(message) ==
  LET text == [type |-> "text", text |-> message.content[1]]
      uses == [i \in DOMAIN message.calls |->
                 [type |-> "tool_use", name |-> message.calls[i].name, args |-> AsInput(message.calls[i].args)]]
  IN IF message.content[1] # NoText \/ uses = <<>> THEN <<text>> \o uses ELSE uses

\* What one element of a response or a stream carries.
Field(element) == CASE element.type = "message" -> "content" [] element.type = "text" -> "text"
                    [] element.type \notin {"message", "text"} -> "args"

\* An element is announced without its content, which follows in one delta.
Events(elements) ==
  FlattenSeq([i \in DOMAIN elements |->
    LET f == Field(elements[i]) IN
    <<[event |-> "start", element |-> [elements[i] EXCEPT ![f] = <<>>]],
      [event |-> "delta", element |-> elements[i]], [event |-> "stop", element |-> elements[i]]>>])

\* The client puts the deltas together.
Assembled(events) ==
  FoldLeft(LAMBDA acc, e :
    CASE e.event = "start" -> Append(acc, e.element)
      [] e.event = "delta" -> [acc EXCEPT ![Len(acc)] = [@ EXCEPT ![Field(e.element)] = e.element[Field(e.element)]]]
      [] e.event = "stop" -> acc,
    <<>>, events)

\* What the client adds to its history for an answer.
Echo(message) ==
  CASE provider = "chat" ->
         <<[message EXCEPT !.calls = [i \in DOMAIN @ |-> [@[i] EXCEPT !.args = Dumped(@)]]]>>
    [] provider = "responses" -> Assembled(Events(OutputItems(message)))
    [] provider = "messages" ->
         <<[role |-> "assistant", content |-> Assembled(Events(Blocks(message)))]>>

-----------------------------------------------------------------------------
(* The client.                                                             *)

Init ==
  /\ provider \in Providers
  /\ tools \in {list \in ToolLists :
       provider # "responses" =>
         \A t \in ToSet(list) : t.space = <<>> /\ t.kind = "function" /\ ~t.deferred}
  /\ wire = <<>> /\ phase = "client" /\ owed = 0 /\ lowered = <<>> /\ offered = {} /\ chain = <<>>
  /\ pieces = 0 /\ answered = 0 /\ inputs = 0 /\ drifted = FALSE

Adds(entries, texts) ==
  /\ phase \in {"client", "echoed"} /\ inputs < MaxInputs /\ inputs' = inputs + 1
  /\ wire' = wire \o entries /\ phase' = "client" /\ pieces' = pieces + texts
  /\ UNCHANGED <<provider, tools, lowered, offered, chain, answered>>

Block(part) == IF part = Image THEN [type |-> "image"] ELSE [type |-> "text", text |-> part]
BlocksOf(parts) == [i \in DOMAIN parts |-> Block(parts[i])]

AddUser ==
  LET text == <<pieces + 1>> IN
  /\ owed = 0 /\ UNCHANGED <<owed, drifted>>
  /\ \E parts \in {<<text>>, <<text, Image>>} :
       Adds(<<CASE provider = "chat" -> Message("user", parts, <<>>)
                [] provider = "responses" -> [type |-> "message", role |-> "user", content |-> parts]
                [] provider = "messages" -> [role |-> "user", content |-> BlocksOf(parts)]>>, 1)

\* The system prompt of the Anthropic request, which stays the same.
AddPrompt ==
  /\ provider = "messages" /\ wire = <<>> /\ UNCHANGED <<owed, drifted>>
  /\ Adds(<<[role |-> "prompt", content |-> <<Block(<<pieces + 1>>)>>]>>, 1)

\* A system message, a developer message, a reminder.  One that is moved in
\* front of what the chain holds changes its messages.
AddSystem ==
  LET text == <<pieces + 1>> IN
  /\ owed = 0 /\ UNCHANGED owed
  /\ drifted' = (drifted \/ (provider = "responses" /\ chain # <<>>)
                        \/ (provider = "messages" /\ phase = "echoed"))
  /\ Adds(<<CASE provider = "chat" -> Plain("system", text)
               [] provider = "responses" -> [type |-> "message", role |-> "developer", content |-> <<text>>]
               [] provider = "messages" -> [role |-> "system", content |-> <<Block(text)>>]>>, 1)

\* Tools come with the input of a turn.
AddTools ==
  /\ provider = "responses" /\ phase = "client" /\ UNCHANGED <<owed, drifted>>
  /\ \A i \in DOMAIN wire : wire[i].type # "additional_tools"
  /\ \E extra \in Extras : Adds(<<[type |-> "additional_tools", tools |-> extra]>>, 0)

\* What a tool may return.
Shapes(text) ==
  CASE provider = "chat" -> {<<text>>}
    [] provider = "responses" -> {<<text>>, <<text, Image>>}
    [] provider = "messages" -> {<<>>, <<text>>, <<Image>>, <<Image, text>>}

\* The results of all calls of the answer; in the messages format a text of the
\* user may follow them.
AddResults ==
  /\ owed > 0 /\ owed' = 0 /\ UNCHANGED drifted
  /\ \E more \in {0} \cup (IF provider = "messages" THEN {1} ELSE {}) :
     \E results \in {f \in [1..owed -> UNION {Shapes(<<pieces + i>>) : i \in 1..owed}] :
                       \A i \in 1..owed : f[i] \in Shapes(<<pieces + i>>)} :
       Adds(CASE provider = "chat" -> [i \in 1..owed |-> Message("tool", results[i], <<>>)]
              [] provider = "responses" ->
                   [i \in 1..owed |-> [type |-> "function_call_output", content |-> results[i]]]
              [] provider = "messages" ->
                   <<[role |-> "user",
                      content |-> [i \in 1..owed |->
                        [type |-> "tool_result", blocks |-> BlocksOf(results[i])]]
                          \o [i \in 1..more |-> Block(<<pieces + owed + 1>>)]]>>, owed + more)

-----------------------------------------------------------------------------
(* The gateway (_GatewayActor).                                            *)

\* A request that can be lowered reaches the session.  A client speaks first.
Request ==
  /\ phase = "client" /\ owed = 0
  /\ \E i \in DOMAIN wire : /\ provider = "messages" => wire[i].role = "user"
                            /\ provider = "responses" => wire[i].type = "message"
  /\ phase' = "sent" /\ lowered' = Lower(wire)
  /\ provider = "responses" => Unambiguous(Collected)
  /\ \E choice \in {"auto", "none"} : offered' = Offered(choice)
  /\ UNCHANGED <<provider, tools, wire, owed, chain, pieces, answered, inputs, drifted>>

\* All others are refused with 400 and leave the session alone.
Refuse ==
  /\ phase = "client" /\ provider = "responses" /\ ~Unambiguous(Collected)
  /\ phase' = "refused"
  /\ UNCHANGED <<provider, tools, wire, owed, lowered, offered, chain, pieces, answered, inputs, drifted>>

\* The echo of an answer is lowered to another message: an empty answer has no
\* item, and arguments that the format cannot carry are replaced.
Lossy(message) ==
  \/ provider = "responses" /\ message.content[1] = NoText /\ message.calls = <<>>
  \/ \E i \in DOMAIN message.calls :
       LET call == message.calls[i] IN
       \/ provider = "responses" /\ Declaration(call.name).kind = "custom" /\ call.args.of # "input"
       \/ provider = "messages" /\ call.args.of = "invalid"

\* The session generates and commits, and the client gets the response or its
\* stream.  Calls are parsed only for offered tools; the model may invent one.
Answer ==
  /\ phase = "sent" /\ answered < MaxAnswers /\ answered' = answered + 1
  /\ \E answer \in Answers :
       LET message == Decoded(answer, IF answer.text THEN <<pieces + 1>> ELSE NoText) IN
       /\ \A i \in DOMAIN answer.calls :
            offered # {} /\ answer.calls[i].name \in offered \cup {<<"invented">>}
       /\ chain' = Append(lowered, message)
       /\ wire' = wire \o Echo(message)
       /\ owed' = Len(message.calls)
       /\ pieces' = IF answer.text THEN pieces + 1 ELSE pieces
       /\ drifted' = Lossy(message)
  /\ phase' = "echoed" /\ offered' = {}
  /\ UNCHANGED <<provider, tools, lowered, inputs>>

\* The generation fails; the client may try again.
GenerationFails ==
  /\ phase = "sent" /\ phase' = "client" /\ offered' = {}
  /\ UNCHANGED <<provider, tools, wire, owed, lowered, chain, pieces, answered, inputs, drifted>>

Over ==
  /\ phase = "refused" \/ answered = MaxAnswers \/ inputs = MaxInputs
  /\ UNCHANGED vars

Next ==
  \/ AddUser \/ AddPrompt \/ AddSystem \/ AddTools \/ AddResults
  \/ Request \/ Refuse \/ Answer \/ GenerationFails \/ Over

Spec == Init /\ [][Next]_vars

-----------------------------------------------------------------------------
(* codec.py: the user message a template may need after system messages.   *)

NeedsAnchor(messages, forced) ==
  forced \/ \A i \in DOMAIN messages : messages[i].role # "user"

\* _normalize_messages_for_continuous_tokens.
Anchored(messages, forced) ==
  LET leading == {n \in 0..Len(messages) : \A i \in 1..n : messages[i].role = "system"}
      first == CHOOSE n \in leading : \A m \in leading : m <= n
  IN IF ~NeedsAnchor(messages, forced) \/ first = 0 THEN messages
     ELSE SubSeq(messages, 1, first) \o <<Plain("user", NoText)>>
            \o SubSeq(messages, first + 1, Len(messages))

\* merge_context_tokens.
Forced ==
  /\ \E i \in DOMAIN chain : chain[i].role = "system"
  /\ \A i \in DOMAIN chain : chain[i].role # "user"

-----------------------------------------------------------------------------
(* Properties.                                                             *)

\* The type invariant.
TurnsTypeOK ==
  /\ phase \in {"client", "sent", "echoed", "refused"} /\ drifted \in BOOLEAN
  /\ owed \in Nat /\ answered \in 0..MaxAnswers /\ inputs \in 0..MaxInputs
  /\ pieces <= 3 * MaxInputs + MaxAnswers
  /\ \A m \in ToSet(lowered) \cup ToSet(chain) :
       /\ m.role \in {"system", "user", "assistant", "tool"}
       /\ \A part \in ToSet(m.content) : \A piece \in ToSet(part) : piece \in -1..pieces
       /\ m.role # "assistant" => m.calls = <<>>
       /\ \A call \in ToSet(m.calls) : call.args.form = "text" => call.args.of = "invalid"

\* The messages of a request extend those of the chain the last answer was
\* committed to, so that the session goes on with its tokens, in all three
\* formats and whether the answer was streamed or not (session.py:787).
\* Excluded by name, until the next answer: a system or developer message that
\* is moved to an earlier place, and an answer whose echo is lossy.  With the
\* synthetic user message of the codec, too, the messages of the chain are a
\* prefix of the new ones (codec.py:358).
TurnContinuesChain ==
  phase = "sent" =>
    /\ ~drifted => IsPrefix(chain, lowered)
    /\ chain # <<>> /\ IsPrefix(chain, lowered) =>
         IsPrefix(Anchored(chain, Forced), Anchored(lowered, Forced))

\* The pieces of a history, in its order.
Pieces(texts) == SelectSeq(FlattenSeq(texts), LAMBDA piece : piece > 0)
Written(entry) ==
  CASE provider = "chat" -> Pieces(entry.content)
    [] provider = "responses" -> IF "content" \in DOMAIN entry THEN Pieces(entry.content) ELSE <<>>
    [] provider = "messages" ->
         FlattenSeq([i \in DOMAIN entry.content |->
           LET b == entry.content[i] IN
           CASE b.type = "text" -> Pieces(<<b.text>>)
             [] b.type = "tool_result" ->
                  FlattenSeq([j \in DOMAIN b.blocks |->
                    IF b.blocks[j].type = "text" THEN b.blocks[j].text ELSE <<>>])
             [] b.type \notin {"text", "tool_result"} -> <<>>])

\* No text is lost, repeated or put in another order by the lowering, however
\* blocks, images, results and reminders are split and merged; system texts,
\* which are moved, are all there once (openai_response.py:378, anthropic.py:230).
TextsKept ==
  LET sent == FlattenSeq([i \in DOMAIN wire |-> Written(wire[i])])
      system == UNION {ToSet(Written(wire[i])) : i \in {j \in DOMAIN wire :
                  /\ "role" \in DOMAIN wire[j] /\ wire[j].role \in {"system", "developer", "prompt"}}}
      got == FlattenSeq([i \in DOMAIN lowered |-> Pieces(lowered[i].content)])
      Others(texts) == SelectSeq(texts, LAMBDA piece : piece \notin system)
  IN phase = "sent" =>
       /\ Others(got) = Others(sent)
       /\ Len(got) = Len(sent) /\ ToSet(got) = ToSet(sent)

\* A chat template accepts what was lowered: system messages are in front, one
\* at most, and the calls of an assistant message are followed by a tool
\* message before a user speaks (anthropic.py:261, 411).
TemplateAccepts ==
  phase = "sent" =>
    \A i \in DOMAIN lowered :
      /\ provider # "chat" /\ lowered[i].role = "system" => i = 1
      /\ lowered[i].calls # <<>> /\ i < Len(lowered) => lowered[i + 1].role = "tool"

\* A call that the client is given names the tool it declared, in its namespace
\* and of its kind, also when namespaces make names collide
\* (openai_response.py:229, 600).
CallsAddressed ==
  phase = "echoed" /\ provider = "responses" =>
    \A item \in ToSet(wire) : item.type \in {"function_call", "custom_tool_call"} =>
      \A t \in ToSet(Collected) : Qualified(t) = item.space \o item.name =>
        /\ Space(t) = item.space /\ t.name = item.name
        /\ t.kind = "custom" <=> item.type = "custom_tool_call"

\* What a provider request becomes can be rendered.
TurnsRendered == TurnsTypeOK /\ TemplateAccepts

=============================================================================

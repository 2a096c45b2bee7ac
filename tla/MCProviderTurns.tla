--------------------------- MODULE MCProviderTurns ---------------------------
(* Instances of ProviderTurns for TLC.                                     *)
EXTENDS ProviderTurns

Tool(kind, space, name, deferred) ==
  [kind |-> kind, space |-> space, name |-> name, deferred |-> deferred]

F == Tool("function", <<>>, <<"f">>, FALSE)
C == Tool("custom", <<"ns">>, <<"c">>, FALSE)

\* "ns__c" is a name of its own in the last list.
MCToolLists ==
  {<<>>, <<F>>, <<F, C>>, <<C, Tool("function", <<"functions">>, <<"ns", "c">>, FALSE)>>,
   <<C, Tool("custom", <<>>, <<"ns", "c">>, FALSE)>>}
MCExtras ==
  {<<Tool("function", <<>>, <<"f">>, TRUE), Tool("function", <<"x">>, <<"f">>, TRUE)>>,
   <<Tool("custom", <<>>, <<"ns", "c">>, FALSE)>>}

Says(text, calls) == [text |-> text, calls |-> calls]
Call(name, of) == [name |-> name, of |-> of]
MCAnswers ==
  {Says(FALSE, <<>>), Says(TRUE, <<>>),
   Says(FALSE, <<Call(<<"f">>, "invalid")>>), Says(FALSE, <<Call(<<"ns", "c">>, "input")>>),
   Says(FALSE, <<Call(<<"ns", "c">>, "input_more")>>),
   Says(TRUE, <<Call(<<"f">>, "input"), Call(<<"f">>, "fields")>>),
   Says(FALSE, <<Call(<<"invented">>, "fields")>>)}

=============================================================================

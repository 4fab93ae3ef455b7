----------------------------- MODULE MCCapsules -----------------------------
(* A small instance of every component that stands for itself, in one run.    *)
EXTENDS Components

-----------------------------------------------------------------------------
(* Values of the constants that a cfg cannot spell. *)

\* Two capsules that serve a model of the same name; one entry has no route.
TheEmits ==
    [p |-> <<[route |-> <<"p">>, id |-> <<"m">>], [route |-> <<>>, id |-> <<"x">>],
             [route |-> <<"p">>, id |-> <<"n", "t">>]>>,
     q |-> <<[route |-> <<"q">>, id |-> <<"m">>]>>]

\* Two capsules with a tool of the same name, an invalid descriptor, and one that
\* is past what is read of a reply.
TheOffers ==
    [p |-> <<[name |-> "x", valid |-> TRUE], [name |-> "z", valid |-> FALSE],
             [name |-> "y", valid |-> TRUE]>>,
     q |-> <<[name |-> "z", valid |-> FALSE], [name |-> "x", valid |-> TRUE]>>]

Rule(effect, tools, when) ==
    [effect |-> effect, tools |-> tools, when |-> when, scoped |-> when # {},
     valid |-> TRUE]
Nameless == "no tool name"
Policies ==
    {[state |-> "set", rules |-> <<Rule("deny", {"t"}, {})>>],
     [state |-> "unset", rules |-> <<>>],
     [state |-> "set", rules |-> <<Rule("allow", {"t", Nameless}, {"i"}),
                                   Rule("deny", {"t", Nameless}, {})>>]}

\* Plugins that answer one invocation, and another that nobody answers.
TheAnswer ==
    [b1 |-> [p1 |-> {{"override", "context"}}, p2 |-> {{"prepend", "append", "override"}}],
     b2 |-> [p1 |-> {}, p2 |-> {}]]

\* Histories with a repeated id and with a message that has none.
Message(id, len) == [id |-> id, len |-> len]
TheHistories ==
    {<<Message("a", 5), Message("b", 3), Message("c", 4), Message("a", 9)>>,
     <<Message("b", 4), Message(None, 8)>>}

\* A row that another begins with, a snapshot and another name that begin with it,
\* an unknown model, and settings pasted with white space.
TheTable == <<<<"g">>, <<"g", "m">>>>
TheIds == [text : {<<"g">>, <<"g", "m">>, <<"g", "m", "1">>, <<"x">>},
           before : {FALSE}, after : {FALSE}]
          \cup [text : {<<"g", "m">>}, before : BOOLEAN, after : BOOLEAN]

TheOldIds == {<<"q">>}
TheInputs == {<<"m">>, <<"p", "m">>, <<"q">>, <<"n", "t">>, <<"z">>}
TheSize == [p1 |-> 5, p2 |-> 4]
TheTools == [t1 |-> <<"a", "b">>]
TheBudgets == {<<4, 3>>}
TheForms == {<<>>, <<"approve_once">>, <<"approve_session", "approve_once", "deny">>}
TheMarkers == <<"system.sock">>

\* Any event beside the end of a session, a new start and another end.
TheHostAsks == [c1 |-> Hosts!Events, c2 |-> {"stop"}, c3 |-> {"stop", "session_start"}]

\* Two releases race to start the runtime; or one starts, asks for and stops it.
Starting == {"run", "init"} \X {"x", "y"}
Stopping == {"run", "stop", "status", "update"} \X {"x"}
=============================================================================

----------------------------- MODULE ToolPolicy -----------------------------
(* The broker's policy decision point (aos-mcp-broker policy.rs) and the two
   ways a native tool call reaches it: the before_tool_call responder
   (hook_gate.rs) and the reserved gate tool (broker.rs
   `pretooluse_gate_reply`).  A rule stands for what its patterns match: the
   tools its glob covers and the inputs its matchers all hold for.            *)
EXTENDS Naturals, Sequences, SequencesExt

CONSTANTS
    Tools,      \* raw tool names
    Inputs,     \* tool inputs a matcher can tell apart
    MaxRules    \* MAX_RULES

NoName  == "no tool name"   \* tool_name is absent: the empty string
NoInput == "no input"       \* Null: only a rule without matchers holds

\* A rule: its id's length is in range or not, and so are its patterns.
Rules == [effect : {"deny", "allow"}, tools : SUBSET (Tools \cup {NoName}),
          when : SUBSET Inputs, scoped : BOOLEAN, valid : BOOLEAN]

Fires(rule, tool, input) ==
    /\ tool \in rule.tools
    /\ ~rule.scoped \/ input \in rule.when

\* evaluate: the first rule that fires decides; the default is allow.
Evaluate(rules, tool, input) ==
    LET firing == {i \in DOMAIN rules : Fires(rules[i], tool, input)}
    IN  IF firing = {} THEN "allow" ELSE rules[Min(firing)].effect

\* validate: one rule out of bounds refuses the whole set.
Valid(rules) ==
    Len(rules) <= MaxRules /\ \A i \in 1..Len(rules) : rules[i].valid

(* load_rules: what the environment overlay holds.  Unset, unreadable and
   unparseable text, and a set that is refused, all mean no rules.            *)
Source(state, rules) == [state |-> state, rules |-> rules]
LoadRules(source) ==
    IF source.state = "set" /\ Valid(source.rules) THEN source.rules ELSE <<>>

\* The payload of a request: an object, or the object as JSON text, with the
\* tool's name and its input, which may be an object or text itself.
Payload(form, tool, input) == [form |-> form, tool |-> tool, input |-> input]

\* tool_name and gate_tool_input look for members: text has none.
GateToolName(p) == IF p.form = "object" THEN p.tool ELSE NoName
GateToolInput(p) == IF p.form = "object" THEN p.input ELSE NoInput

Decide(source, p) ==
    Evaluate(LoadRules(source), GateToolName(p), GateToolInput(p))

\* verdict_body and gate_reply_body: a deny is a veto; an allow is no opinion.
VerdictBody(decision) == [skip |-> decision = "deny"]
GateReplyBody(decision) ==
    [isError |-> FALSE,
     permission |-> IF decision = "deny" THEN "deny" ELSE "continue"]
=============================================================================

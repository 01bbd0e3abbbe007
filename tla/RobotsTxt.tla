----------------------------- MODULE RobotsTxt -----------------------------
(***************************************************************************)
(* The reader of robots.txt: ParseRobotsTxt and IsAllowed.  A line is the  *)
(* sequence of its fields, the first in lower case; the value of a         *)
(* crawl-delay is the number that Atoi makes of it, 0 for what is none.    *)
(*                                                                         *)
(* A user-agent line stores a copy of the current rule, and the directives *)
(* after it change only the rule that was copied: a file of the usual form *)
(* yields an empty rule for each of its agents.  A rule is seen only when  *)
(* the line of its agent comes again after it.                             *)
(***************************************************************************)
LOCAL INSTANCE Naturals
LOCAL INSTANCE Sequences
LOCAL INSTANCE SequencesExt

Everyone == "*"   \* the agent that stands for all

\* The rule a new agent begins with.
NoRule == [allow |-> <<>>, disallow |-> <<>>, delay |-> 0]

HasPrefix(prefix, s) == Len(prefix) <= Len(s) /\ SubSeq(s, 1, Len(prefix)) = prefix

\* Lines that ParseRobotsTxt does not skip.
Directive(line) == Len(line) >= 2 /\ ~HasPrefix("#", line[1])

\* An agent met before is given whatever rule is current.
UserAgent(file, agent) ==
  LET rule == IF agent \in DOMAIN file.rules THEN file.rule ELSE NoRule
  IN  [rule |-> rule, started |-> TRUE,
       rules |-> [a \in DOMAIN file.rules \cup {agent} |-> IF a = agent THEN rule ELSE file.rules[a]]]

Read(file, line) ==
  CASE line[1] = "user-agent:" -> UserAgent(file, line[2])
    [] line[1] = "allow:" /\ file.started -> [file EXCEPT !.rule.allow = Append(@, line[2])]
    [] line[1] = "disallow:" /\ file.started -> [file EXCEPT !.rule.disallow = Append(@, line[2])]
    [] line[1] = "crawl-delay:" /\ file.started -> [file EXCEPT !.rule.delay = line[2]]
    [] OTHER -> file

ParseRobotsTxt(lines) ==
  FoldLeft(Read, [rule |-> NoRule, started |-> FALSE, rules |-> <<>>],
           SelectSeq(lines, Directive)).rules

\* An agent of a rule is one field and the scraper's userAgent has several, so that
\* the rule it finds is that for all agents.
RuleFor(rules) == IF Everyone \in DOMAIN rules THEN rules[Everyone] ELSE NoRule

\* The allow lines are gone through last, and everything else is allowed too.
IsAllowed(rules, path) ==
  \A i \in 1..Len(RuleFor(rules).disallow) : ~HasPrefix(RuleFor(rules).disallow[i], path)
=============================================================================

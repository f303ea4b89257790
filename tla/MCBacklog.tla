------------------------------ MODULE MCBacklog ------------------------------
(* Values for the constants of Backlog. *)
EXTENDS Backlog

\* One task, with two links, and the pull request of one of them merged; claude may link
\* r3 to a task, and `jaum task new` links r4, which has no local path.
MCStart   == << << [repo |-> "r1", branch |-> 1], [repo |-> "r2", branch |-> 2] >> >>
MCNewLink == [repo |-> "r4", branch |-> 4]
MCEdits   == {[repo |-> "r3", branch |-> 3]}
MCGhStart == <<"open", "merged", "none", "none">>

=============================================================================

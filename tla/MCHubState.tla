------------------------------ MODULE MCHubState ------------------------------
EXTENDS HubState

CONSTANTS n1, n2, x, task, result

MCNames == {n1, n2}
MCFilters == [replyTo : {None, x}, kind : {None, task}]

\* One envelope every filter takes, two that some refuse, one for another name.
Env(id, to, kind, corr) == [id |-> id, to |-> to, kind |-> kind, corr |-> corr]
MCEnvelopes == {Env(1, n1, task, x), Env(2, n1, task, None), Env(3, n1, result, x),
                Env(4, n2, task, None)}
=============================================================================

----------------------------- MODULE MCRupKernel -----------------------------
(* Small obligations and certificates for RupKernel.                        *)
EXTENDS RupKernel

\* Unsatisfiable, satisfiable and degenerate obligations over three variables:
\* unit clauses, duplicates, a tautology, an empty clause, a literal that is
\* out of range.
Obligations == {
    << <<1,2>>, <<1,-2>>, <<-1,2>>, <<-1,-2>> >>,
    << <<1,2,3>>, <<1,2,-3>>, <<-1,3>>, <<-2,-3>> >>,
    << <<1,2,3>>, <<-1,2>>, <<-2>>, <<1,-3,2>> >>,
    << <<-1,2,-3>>, <<3,1>>, <<1,-3>>, <<-2,-1>>, <<3,-2,1>>, <<3, 2>> >>,
    << <<1,1,-2>>, <<2,-2>>, <<2>> >>,
    << <<>>, <<1>> >>,
    << <<1,4>> >> }

\* Every ordered choice of three long clauses: the watches move between them.
Long == {<<1,2,3>>, <<-1,2,-3>>, <<-2,1,3>>, <<-3,-1>>, <<3,-2>>, <<2,-1>>}
ManyObligations == Obligations \cup
    {<<a, b, c, <<-1,-2,3>> >> : a \in Long, b \in Long, c \in Long}

Lines == {<<>>, <<1>>, <<-2>>, <<2,1>>, <<3,3>>, <<1,-1>>, <<-1,2,3>>, <<0>>}
=============================================================================

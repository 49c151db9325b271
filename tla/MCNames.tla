------------------------------ MODULE MCNames -------------------------------
(* Instances of Names for TLC. *)
EXTENDS Names, TLC

Symmetry == Permutations(Procs)

MCCalls ==
    LET a == <<"/", "a">>
        ab == <<"/", "a", "b">>
    IN {<<"create", a, "dir">>, <<"create", <<"b">>, "file">>, <<"create", <<"/">>, "dir">>,
        <<"open", ab, "O_RDWR">>, <<"chdir", <<"..">>>>, <<"chdir", ab>>,
        <<"unlink", a>>, <<"unlink", <<"/", "..">>>>, <<"unlink", ab>>, <<"link", <<"b">>, ab>>,
        <<"create", ab, "dir">>}
=============================================================================

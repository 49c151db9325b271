----------------------------- MODULE MCUserLand -----------------------------
EXTENDS UserLand

Words(S, n) == UNION {[1 .. k -> S] : k \in 0 .. n}
MCArrays == UNION {[0 .. n - 1 -> 1 .. 3] : n \in 0 .. 7}
            \cup {[i \in 0 .. n - 1 |-> (k * i + c) % (n + 1)] : n \in 8 .. 9, k \in 1 .. 8, c \in 0 .. 8}
MCQuads == 0 .. 255
MCNumbers == Words({" ", "-", "0", "1", "7", "9", "a", "x"}, 4)
\* Every short line, and longer ones put together from commands.
Commands == {<<"x">>, <<"x", " ", "y">>, <<"x", "<", "y">>, <<">", ">", "x", "y", " ", "z">>,
             <<"(", "x", "|", "y", ")">>, <<"(", "x", ";", "y", "&", ")", ">", "z">>}
Joints == {<<"|">>, <<"&">>, <<";">>, <<" ", "&", ";">>, <<")">>}
MCLines == Words({"x", " ", "|", "&", ";", "(", ")", "<", ">"}, 5)
           \cup {a \o i \o b : a \in Commands, i \in Joints, b \in Commands}
           \cup {a \o i \o b \o j \o c : a, b, c \in Commands, i, j \in Joints}
MCArgLists == {[i \in 1 .. n |-> text(i, (k * i) % 7)] : n \in 0 .. 4, k \in 0 .. 6}
=============================================================================

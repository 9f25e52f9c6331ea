---------------------------- MODULE MCManifestEdits ----------------------------
(* Model checking of ManifestEdits.                                           *)
EXTENDS ManifestEdits

-----------------------------------------------------------------------------
(* What a build may begin with: the empty image of begin, an image with a     *)
(* setting of every kind, and one whose config somebody else has written,     *)
(* with a volume nobody has named, a port without a protocol and a variable   *)
(* without a value.                                                           *)
BlankAppc == [name |-> "a", labels |-> A!Nothing, annotations |-> A!Nothing,
              deps |-> <<>>, app |-> None]
FullAppc ==
    [BlankAppc EXCEPT
        !.deps = <<[name |-> "a", version |-> None], [name |-> "b", version |-> None]>>,
        !.app = [A!AppOf("x") EXCEPT
                    !.exec = <<"x", "y">>,
                    !.env = A!Put(A!Nothing, "a", "x"),
                    !.mounts = {[name |-> "a", path |-> "/p", ro |-> TRUE]},
                    !.ports = {[name |-> "a", number |-> "80", protocol |-> "tcp", opts |-> {}]},
                    !.isolators = A!Put(A!Nothing, "a", "x")]]

BlankOci == [env |-> {}, volumes |-> {}, ports |-> {}, entry |-> <<>>, cmd |-> <<>>,
             user |-> <<Empty>>, dir |-> Empty, ref |-> "x", annotations |-> O!Put([k \in {} |-> k], <<"text", "a">>, <<"text", "x">>)]
FullOci ==
    [BlankOci EXCEPT
        !.env = {<<"a", "x">>, <<"b", "y">>}, !.user = <<"x", "y">>,
        !.volumes = {"/p"}, !.ports = {<<"80", "tcp">>},
        !.annotations = O!Put(O!Put(@, <<"mount", "a">>, <<"path", "/p">>),
                              <<"port", "a">>, <<"port", "80", "tcp">>)]
ForeignOci == [BlankOci EXCEPT !.env = {<<"a", None>>, <<"b", "x">>}, !.entry = <<"x">>,
                               !.volumes = {"/p", "/p q"},
                               !.ports = {<<"80">>, <<"80", "udp">>, <<"http", "tcp">>}]

MCStarts == {<<"appc", BlankAppc>>, <<"appc", FullAppc>>,
             <<"oci", BlankOci>>, <<"oci", FullOci>>, <<"oci", ForeignOci>>}
MCLines == {<<"x">>, <<"y", "x">>}
MCFiles == {[user |-> "y", group |-> "x", exec |-> <<"y">>, volumes |-> {}],
            [dir |-> "/x", env |-> A!Put(A!Nothing, "b", "x"), volumes |-> {"/q"}],
            [env |-> A!Put(A!Nothing, "!", "x"), volumes |-> {}]}
MCOutOfRange == {<<"0", FALSE>>, <<"0", TRUE>>, <<"65535", TRUE>>}
MCExclusive == {{"a", "b"}}
MCBadLabels == {{<<"b", "y">>}, {<<"a", "x">>, <<"b", "x">>}}
MCUnfit == {<<"b", "y">>}
MCCut == [p \in {"/p q"} |-> "/p"]

-----------------------------------------------------------------------------
\* No action reads which command ran before, or how it ended.
View == <<mode, man, image, edits>>
================================================================================

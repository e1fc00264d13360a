------------------------------- MODULE MCRtp -------------------------------
(***************************************************************************)
(* RtpSession with three identifiers, one of them (15) beyond the one-byte *)
(* profile, payloads on both sides of its 16 bytes, one of them made of    *)
(* bytes that would read as padding, and three buffers of another          *)
(* implementation: padding between two elements, a list ended by           *)
(* identifier 15, and an extension of neither profile.                     *)
(***************************************************************************)
EXTENDS RtpSession

MCPayloads == {<<0, 0>>, [i \in 1..16 |-> 7], [i \in 1..17 |-> 8]}

Assigned(padding, padding_size, csrc, payload) ==
    [padding |-> padding, padding_size |-> padding_size, csrc |-> csrc, payload |-> payload]

MCFields ==
    {Assigned(TRUE, 0, 0, <<>>), Assigned(TRUE, 3, 1, <<5, 200>>),
     Assigned(FALSE, 2, 0, <<200>>)}

Header(profile) == <<144>> \o Zeros(11) \o profile
MCForeign ==
    {Header(<<190, 222, 0, 2>>) \o <<16, 7, 0, 0>> \o <<33, 7, 7, 0>> \o <<9>>,
     Header(<<190, 222, 0, 1>>) \o <<16, 7, 240, 0>> \o <<9>>,
     Header(<<0, 1, 0, 1>>) \o <<1, 2, 3, 4>> \o <<9>>}

\* The hypothesis of Accepted and Refinement in RtpProofs.
ASSUME MCForeignSuits == ForeignSuits
=============================================================================

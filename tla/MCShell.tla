------------------------------ MODULE MCShell -------------------------------
(***************************************************************************)
(* Names and command lines for the model checker.                          *)
(***************************************************************************)
EXTENDS Shell

MCNoName   == <<"", "">>
MCRootName == <<"ROOT", "">>
MCShellName == <<"shell", "">>
MCIkanaide == <<"ikanaide", "">>
MCKano1    == <<"kano1", "">>
MCKano2    == <<"kano2", "">>
MCDaijoubu == <<"daijoubu", "uwu">>
MCd        == <<"d", "">>
MCdTxt     == <<"d", "txt">>
MCNames == {MCShellName, MCIkanaide, MCKano1, MCKano2, MCDaijoubu, MCd}
MCLongStems == {"ikanaide", "daijoubu"}

Cmd(c, from, to) == [cmd |-> c, from |-> from, to |-> to]
MCLines ==
    {Cmd("cd", <<>>, <<>>), Cmd("cd", <<MCKano1, Here, MCKano2>>, <<>>),
     Cmd("cd", <<MCd>>, <<>>),
     Cmd("mkdir", <<MCd>>, <<>>), Cmd("mkdir", <<MCKano1, MCd>>, <<>>),
     Cmd("rm", <<MCd>>, <<>>), Cmd("rm", <<Up, MCd>>, <<>>), Cmd("rm", <<MCdTxt>>, <<>>),
     Cmd("cat", <<MCKano1, MCKano2, MCDaijoubu>>, <<>>),
     Cmd("cp", <<MCKano1>>, <<MCIkanaide>>), Cmd("cp", <<MCd>>, <<MCd>>),
     Cmd("cp", <<MCShellName>>, <<MCd>>), Cmd("cp", <<MCDaijoubu>>, <<Up>>),
     Cmd("mv", <<MCKano1, MCKano2>>, <<MCIkanaide>>), Cmd("mv", <<MCDaijoubu>>, <<Up, MCd>>),
     Cmd("mv", <<Up, MCKano1>>, <<Here>>)}
=============================================================================

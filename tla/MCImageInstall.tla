---------------------------- MODULE MCImageInstall ----------------------------
(* ImageInstall for TLC: two small trees, one packed and one to be replaced. *)
EXTENDS ImageInstall, TLC

Setuid(perm) == [Permissions(perm) EXCEPT !.setuid = TRUE]

Packed ==
  <<"opt">>                   :> NewNode("dir", 493)
  @@ <<"opt", "actions-runner">> :> [NewNode("dir", 493) EXCEPT !.owner = "runner"]
  @@ <<"usr">>                :> NewNode("dir", 493)
  @@ <<"usr", "sudo">>        :> [NewNode("file", 493) EXCEPT !.mode = Setuid(493)]
  @@ <<"usr", "sudoedit">>    :> NewNode("link", 511)
  @@ <<"usr", "perl5">>       :> NewNode("file", 493)

FurtherNames == {<<"usr", "perl5">>}

Old ==
  <<"usr">>                   :> [NewNode("dir", 493) EXCEPT !.owner = "runner"]
  @@ <<"usr", "sudo">>        :> [NewNode("file", 511) EXCEPT !.owner = "runner"]
  @@ <<"usr", "games">>       :> NewNode("dir", 493)
=============================================================================

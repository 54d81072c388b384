-------------------------- MODULE MCMessageHandlers --------------------------
(* An instance of MessageHandlers for TLC. *)
EXTENDS MessageHandlers

CONSTANTS e1, discord

Other(kind) ==
  [kind |-> kind, command |-> FALSE, images |-> 0, addressed |-> FALSE, media |-> <<>>]

\* A meme of two photos, with tags; a video for the memes chat that addresses the
\* bot, whose run always fails at the poll; a command, and one event of each other
\* kind.
MCShapes == {
  [Other("message") EXCEPT !.images = 2, !.media = <<"photo", "photo">>],
  [Other("message") EXCEPT !.addressed = TRUE, !.media = <<"video">>],
  [Other("message") EXCEPT !.command = TRUE],
  Other("reply"), Other("callback"), Other("vote")}
\* One call of the bot of Discord.
MCAsks == (Events \X Runs) \cup {<<discord, 1>>}
MCUserOf == [a \in MCAsks |-> IF a[1] \in Events THEN "vk user" ELSE "discord user"]

\* Other calls are looked at beside events whose handlers ask as well.
AsksMeet == (\E e \in Events : about[e].addressed) \/ call[<<discord, 1>>] = "idle"
=============================================================================

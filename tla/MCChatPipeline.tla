--------------------------- MODULE MCChatPipeline ----------------------------
(***************************************************************************)
(* Instances of ChatPipeline for TLC.                                      *)
(***************************************************************************)
EXTENDS ChatPipeline

CONSTANTS show, it, its, this, about, the, context, password, policy, plans, sales, delete, penguin,
          limit, and, sorry, nothing

MCWords == {show, it, its, this, about, the, context, password, policy, plans, sales, delete,
            penguin, limit, and, sorry, nothing}

\* Of "in the context of", the one word that is not a stop word, beside one that is.
MCGlue == <<the, context>>

MCAsked ==
  {<<password, policy>>, <<show, it>>, <<show, its, password>>,  \* an extraction, and what is none
   <<delete, sales>>, <<delete, this>>, <<about, sales>>, <<the, policy>>,
   <<policy, and, sales>>, <<plans, sales>>,                     \* two sources, and what is one
   <<plans>>, <<penguin>>, <<limit>>}

\* What a model makes of the follow-ups above: better, worse and invented.
MCRewrites == {<<show, password, policy>>, <<delete, sales>>, <<limit, policy>>, <<penguin>>}

MCSubQuestions == {<<sales>>, <<delete, sales>>, <<show, password>>}

MCReplies == {<<penguin, limit>>}

MCRefusalText     == <<sorry>>
MCEmptyHandedText == <<nothing>>
==============================================================================

\* The deployment and the script edit, two jobs are added, and commands may
\* stay behind, hung, when the next one starts; only FEISHU_CHAT_ID says
\* whom to tell.
CONSTANTS
  Editors = {deploy, script}
  Runs = {r1}
  Jobs = {j1, j2}
  HasUser = FALSE
SPECIFICATION FairSpec
INVARIANTS CrontabIsWhole ExitTells
PROPERTY ProblemAlerted

SPECIFICATION Spec
CONSTANTS
  chat = chat
  chat_mychat = chat_mychat
  chat1 = chat1
  chat10 = chat10
  mychat1 = mychat1
  home = home
  root = root
  temp = temp
  Name = {chat, chat_mychat}
  Package = {chat1, chat10, mychat1}
  Info <- Chosen
  Longer <- Longers
  Ending <- Longers
  Thread = {"main", "worker"}
INVARIANTS PathSettles HomeAlone
PROPERTIES UninstallComplete

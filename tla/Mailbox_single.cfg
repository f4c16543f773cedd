CONSTANTS
  mail1 = mail1
  mail2 = mail2
  mail3 = mail3
  worker1 = worker1
  worker2 = worker2
  Mqtt = Mqtt
  Main = Main
  Nothing = Nothing
  Notice = Notice
  Mails <- MCMails
  Workers <- MCWorkers
  IOT_ACTION_QUEUE_MAX = 2
  SingleThread = TRUE
  MaxDrops = 0
  MaxIntervals = 0
SPECIFICATION FairSpec
PROPERTY MailServed
CHECK_DEADLOCK FALSE

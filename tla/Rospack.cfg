\* rospack objects that run up to two commands, and rosstack processes, over small directory trees and manifests.
SPECIFICATION AllSpec
CONSTANTS
  MaxDirectoryDepth = 5
  Worlds <- MCWorlds
  Cmds <- MCCmds
  StackWorlds <- MCStackWorlds
  StackCmds <- MCStackCmds
  MaxDepth = 5
  MaxCommands = 2
  MaxLinks = 2
CHECK_DEADLOCK FALSE
INVARIANTS
  DependsRight
  UsersRight
  ErrorsJustified
  CrawlExact
  PackagesFound
